---- MODULE Spec2Model ----
(***************************************************************************)
(* YouTube Shorts automation: the pipeline orchestrator (main.py), the     *)
(* topic scorer (topic_processor.py) and the adapters it drives.           *)
(*                                                                         *)
(* Text is a sequence of one-character strings, so that Python's substring *)
(* test `kw in text`, str.lower() and str.split() are computed as the code *)
(* computes them.  Optional values are sequences of length 0 (None) or 1.  *)
(* Floats are scaled integers: a multiplier m is stored as 10*m and an     *)
(* engagement score as score * 10^4.  Time is in hours.                    *)
(*                                                                         *)
(* Environment: a source task, an adapter, the upload service and the      *)
(* write of a placeholder file may fail.  The writes of the script file    *)
(* (save_script) and of the report (save_pipeline_results) succeed.        *)
(***************************************************************************)
EXTENDS Integers, Sequences, FiniteSets, TLC

(***************************************************************************)
(* Bounds of the model.                                                    *)
(***************************************************************************)
MaxTrends == 1      \* length of the Google trending list
MaxPosts == 1       \* hot posts returned by the Reddit source
MaxTicks == 1       \* clock ticks during one run

StartNow == 30      \* clock reading (hours) when the process starts

(***************************************************************************)
(* Text primitives.                                                        *)
(***************************************************************************)
UpperAlphabet ==
    <<"A","B","C","D","E","F","G","H","I","J","K","L","M",
      "N","O","P","Q","R","S","T","U","V","W","X","Y","Z">>

LowerAlphabet ==
    <<"a","b","c","d","e","f","g","h","i","j","k","l","m",
      "n","o","p","q","r","s","t","u","v","w","x","y","z">>

lower_char(c) ==
    IF \E k \in 1..26 : UpperAlphabet[k] = c
    THEN LowerAlphabet[CHOOSE k \in 1..26 : UpperAlphabet[k] = c]
    ELSE c

\* str.lower()
lower(s) == [k \in 1..Len(s) |-> lower_char(s[k])]

\* Python's `kw in text` on strings: kw occurs as a contiguous substring
Contains(kw, text) ==
    \E i \in 0..(Len(text) - Len(kw)) : SubSeq(text, i + 1, i + Len(kw)) = kw

IsSpace(c) == c \in {" ", "\n"}

\* len(text.split()): the number of maximal runs of non-blank characters
WordCount(text) ==
    Cardinality({i \in 1..Len(text) :
                    ~IsSpace(text[i]) /\ (i = 1 \/ IsSpace(text[i - 1]))})

\* str.strip()
Strip(text) ==
    LET Solid(i) == ~IsSpace(text[i])
        first == CHOOSE i \in 1..Len(text) :
                    Solid(i) /\ \A j \in 1..(i - 1) : ~Solid(j)
        last == CHOOSE i \in 1..Len(text) :
                   Solid(i) /\ \A j \in (i + 1)..Len(text) : ~Solid(j)
    IN  IF \A i \in 1..Len(text) : ~Solid(i) THEN <<>>
        ELSE SubSeq(text, first, last)

\* the characters the regular expression \w matches
IsWordChar(c) ==
    \/ \E k \in 1..26 : c = LowerAlphabet[k] \/ c = UpperAlphabet[k]
    \/ c \in {"0", "1", "2", "3", "4", "5", "6", "7", "8", "9", "_"}

\* re.findall(r'\b\w+\b', text): the maximal runs of word characters, in order
FindWords(text) ==
    LET starts == {i \in 1..Len(text) :
                      IsWordChar(text[i]) /\ (i = 1 \/ ~IsWordChar(text[i - 1]))}
        EndOf(i) == CHOOSE e \in i..Len(text) :
                       /\ \A j \in i..e : IsWordChar(text[j])
                       /\ (e = Len(text) \/ ~IsWordChar(text[e + 1]))
        Nth(n) == CHOOSE i \in starts : Cardinality({j \in starts : j < i}) = n - 1
    IN  [n \in 1..Cardinality(starts) |-> SubSeq(text, Nth(n), EndOf(Nth(n)))]

\* sum(1 for kw in kws if kw in text)
Hits(kws, text) == Cardinality({k \in 1..Len(kws) : Contains(kws[k], text)})

\* Optional values
None == <<>>
Some(v) == <<v>>

(***************************************************************************)
(* Configuration tables of the scorer (TopicProcessor.__init__).           *)
(***************************************************************************)
blacklisted_keywords ==
    << <<"d","e","a","t","h">>,
       <<"s","u","i","c","i","d","e">>,
       <<"m","u","r","d","e","r">>,
       <<"v","i","o","l","e","n","c","e">>,
       <<"w","a","r">>,
       <<"t","e","r","r","o","r","i","s","m">>,
       <<"e","x","p","l","i","c","i","t">>,
       <<"n","s","f","w">>,
       <<"d","r","u","g">>,
       <<"a","l","c","o","h","o","l">>,
       <<"g","a","m","b","l","i","n","g">>,
       <<"h","a","t","e">>,
       <<"p","o","l","i","t","i","c","a","l">>,
       <<"e","l","e","c","t","i","o","n">>,
       <<"v","o","t","i","n","g">>,
       <<"g","o","v","e","r","n","m","e","n","t">>,
       <<"p","r","o","t","e","s","t">> >>

min_engagement_score == 10

max_title_length == 100

min_title_length == 10

engagement_multipliers ==
    << [key |-> "science", keyword |-> <<"s","c","i","e","n","c","e">>, mult |-> 12],
       [key |-> "technology", keyword |-> <<"t","e","c","h","n","o","l","o","g","y">>, mult |-> 11],
       [key |-> "health", keyword |-> <<"h","e","a","l","t","h">>, mult |-> 13],
       [key |-> "animals", keyword |-> <<"a","n","i","m","a","l","s">>, mult |-> 14],
       [key |-> "space", keyword |-> <<"s","p","a","c","e">>, mult |-> 12],
       [key |-> "food", keyword |-> <<"f","o","o","d">>, mult |-> 13],
       [key |-> "travel", keyword |-> <<"t","r","a","v","e","l">>, mult |-> 11],
       [key |-> "diy", keyword |-> <<"d","i","y">>, mult |-> 12],
       [key |-> "facts", keyword |-> <<"f","a","c","t","s">>, mult |-> 15],
       [key |-> "trivia", keyword |-> <<"t","r","i","v","i","a">>, mult |-> 14],
       [key |-> "history", keyword |-> <<"h","i","s","t","o","r","y">>, mult |-> 11],
       [key |-> "mystery", keyword |-> <<"m","y","s","t","e","r","y">>, mult |-> 13],
       [key |-> "nature", keyword |-> <<"n","a","t","u","r","e">>, mult |-> 12] >>

content_patterns ==
    << [content_type |-> "educational", patterns |->
           << <<"l","e","a","r","n">>,
              <<"h","o","w"," ","t","o">>,
              <<"t","u","t","o","r","i","a","l">>,
              <<"g","u","i","d","e">>,
              <<"e","x","p","l","a","i","n">>,
              <<"s","c","i","e","n","c","e">>,
              <<"s","t","u","d","y">>,
              <<"r","e","s","e","a","r","c","h">> >>],
       [content_type |-> "entertainment", patterns |->
           << <<"f","u","n","n","y">>,
              <<"a","m","a","z","i","n","g">>,
              <<"i","n","c","r","e","d","i","b","l","e">>,
              <<"s","h","o","c","k","i","n","g">>,
              <<"v","i","r","a","l">>,
              <<"m","e","m","e">>,
              <<"c","e","l","e","b","r","i","t","y">> >>],
       [content_type |-> "news", patterns |->
           << <<"b","r","e","a","k","i","n","g">>,
              <<"n","e","w","s">>,
              <<"u","p","d","a","t","e">>,
              <<"a","n","n","o","u","n","c","e","m","e","n","t">>,
              <<"r","e","p","o","r","t">>,
              <<"t","o","d","a","y">>,
              <<"l","a","t","e","s","t">> >>],
       [content_type |-> "lifestyle", patterns |->
           << <<"h","e","a","l","t","h">>,
              <<"f","i","t","n","e","s","s">>,
              <<"f","o","o","d">>,
              <<"t","r","a","v","e","l">>,
              <<"h","o","m","e">>,
              <<"s","t","y","l","e">>,
              <<"b","e","a","u","t","y">>,
              <<"w","e","l","l","n","e","s","s">> >>] >>

source_multipliers ==
    << [source |-> <<"g","o","o","g","l","e","_","t","r","e","n","d","s">>, mult |-> 12],
       [source |-> <<"r","e","d","d","i","t">>, mult |-> 11],
       [source |-> <<"t","w","i","t","t","e","r">>, mult |-> 10] >>

complex_keywords ==
    << <<"s","c","i","e","n","c","e">>,
       <<"r","e","s","e","a","r","c","h">>,
       <<"s","t","u","d","y">>,
       <<"t","e","c","h","n","o","l","o","g","y">>,
       <<"m","e","d","i","c","a","l">>,
       <<"q","u","a","n","t","u","m">>,
       <<"e","c","o","n","o","m","i","c","s">>,
       <<"f","i","n","a","n","c","e">>,
       <<"p","o","l","i","t","i","c","s">>,
       <<"l","a","w">>,
       <<"a","c","a","d","e","m","i","c">>,
       <<"t","e","c","h","n","i","c","a","l">> >>

simple_keywords ==
    << <<"f","o","o","d">>,
       <<"a","n","i","m","a","l","s">>,
       <<"t","r","a","v","e","l">>,
       <<"c","e","l","e","b","r","i","t","y">>,
       <<"s","p","o","r","t","s">>,
       <<"w","e","a","t","h","e","r">>,
       <<"e","n","t","e","r","t","a","i","n","m","e","n","t">>,
       <<"m","u","s","i","c">>,
       <<"a","r","t">>,
       <<"f","a","s","h","i","o","n">>,
       <<"l","i","f","e","s","t","y","l","e">> >>

(***************************************************************************)
(* Raw material the topic sources deliver.                                 *)
(***************************************************************************)
TitleFacts == <<"C","u","t","e"," ","A","n","i","m","a","l"," ","F","a","c","t","s">>

TitlePolitical == <<"P","o","l","i","t","i","c","a","l"," ","D","e","b","a","t","e"," ","T","o","n","i","g","h","t">>

TitleQuantum == <<"Q","u","a","n","t","u","m"," ","S","c","i","e","n","c","e"," ","S","t","u","d","y">>

TitleFood == <<"H","e","a","l","t","h","y"," ","F","o","o","d"," ","a","n","d"," ","T","r","a","v","e","l">>

TrendingTopicPrefix == <<"T","r","e","n","d","i","n","g"," ","t","o","p","i","c",":"," ">>

RedditPostFrom == <<"R","e","d","d","i","t"," ","p","o","s","t"," ","f","r","o","m"," ","r","/","a","l","l">>

google_trends == <<"g","o","o","g","l","e","_","t","r","e","n","d","s">>

reddit_r_all == <<"r","e","d","d","i","t","_","r","_","a","l","l">>

(***************************************************************************)
(* Topic sources (trending_fetcher.py).  A TrendingTopic is a record       *)
(* title, description, source, score, keywords, url, created_at.           *)
(***************************************************************************)
GoogleTitles == {TitleFacts, TitlePolitical, TitleQuantum}

\* hot posts as the Reddit API returns them: score is post.score, age is
\* now - created_utc in hours
RedditPosts ==
    { [title |-> TitleFood, selftext |-> <<>>, score |-> 9500, age |-> 5,
       keywords |-> << <<"h","e","a","l","t","h","y">>, <<"f","o","o","d">>,
                       <<"t","r","a","v","e","l">> >>] }

Range(seq) == {seq[i] : i \in 1..Len(seq)}

\* the sequences of length at most n over the set S
SeqsUpTo(S, n) == UNION {[1..k -> S] : k \in 0..n}

\* fetch_google_trends: one topic per trending search, scored by its rank
fetch_google_trends(trending_searches, now) ==
    [i \in 1..Len(trending_searches) |->
        [title |-> trending_searches[i],
         description |-> TrendingTopicPrefix \o trending_searches[i],
         source |-> google_trends,
         score |-> 100 - ((i - 1) * 10),
         keywords |-> <<lower(trending_searches[i])>>,
         url |-> None,
         created_at |-> Some(now)]]

\* fetch_reddit_trends: one topic per hot post of the last 24 hours
RECURSIVE fetch_reddit_trends(_, _)
fetch_reddit_trends(hot_posts, now) ==
    IF hot_posts = <<>> THEN <<>>
    ELSE LET post == Head(hot_posts)
             rest == fetch_reddit_trends(Tail(hot_posts), now)
         IN  IF post.age > 24 THEN rest
             ELSE << [title |-> post.title,
                      description |-> IF post.selftext # <<>>
                                      THEN post.selftext
                                      ELSE RedditPostFrom,
                      source |-> reddit_r_all,
                      score |-> post.score \div 100,
                      keywords |-> post.keywords,
                      url |-> Some("https://reddit.com/permalink"),
                      created_at |-> Some(now - post.age)] >> \o rest

\* a sort that puts an element in front of the earlier ones with an equal key
RECURSIVE SortDescendingUnstable(_, _)
SortDescendingUnstable(seq, keys) ==
    IF seq = <<>> THEN <<>>
    ELSE LET n == Len(seq)
             sorted_keys == SortDescendingUnstable(SubSeq(keys, 1, n - 1),
                                                   SubSeq(keys, 1, n - 1))
             sorted == SortDescendingUnstable(SubSeq(seq, 1, n - 1),
                                              SubSeq(keys, 1, n - 1))
             at == Cardinality({i \in 1..(n - 1) : sorted_keys[i] > keys[n]})
         IN  SubSeq(sorted, 1, at) \o <<seq[n]>> \o SubSeq(sorted, at + 1, n - 1)

\* list.sort(key=..., reverse=True) is stable: an element moves behind the
\* elements with a greater key and behind the earlier ones with an equal key.
\* keys[i] is the sort key of seq[i].
RECURSIVE SortDescending(_, _)
SortDescending(seq, keys) ==
    IF seq = <<>> THEN <<>>
    ELSE LET n == Len(seq)
             sorted_keys == SortDescending(SubSeq(keys, 1, n - 1),
                                           SubSeq(keys, 1, n - 1))
             sorted == SortDescending(SubSeq(seq, 1, n - 1),
                                      SubSeq(keys, 1, n - 1))
             at == Cardinality({i \in 1..(n - 1) : sorted_keys[i] >= keys[n]})
         IN  SubSeq(sorted, 1, at) \o <<seq[n]>> \o SubSeq(sorted, at + 1, n - 1)

\* the sequence of f[x] for x in seq, as a list comprehension builds it
RECURSIVE MapSeq(_, _)
MapSeq(f, seq) ==
    IF seq = <<>> THEN <<>> ELSE <<f[Head(seq)]>> \o MapSeq(f, Tail(seq))

\* a gather without return_exceptions: one failed source loses every topic
fetch_all_trending_topics_unguarded(results, limit) ==
    IF \E k \in 1..Len(results) : results[k] = None THEN <<>>
    ELSE LET RECURSIVE Combine(_)
             Combine(rs) == IF rs = <<>> THEN <<>>
                            ELSE Head(rs)[1] \o Combine(Tail(rs))
             combined == Combine(results)
             topics == SortDescending(combined,
                           MapSeq([t \in Range(combined) |-> t.score], combined))
         IN  SubSeq(topics, 1, IF Len(topics) < limit THEN Len(topics) ELSE limit)

\* fetch_all_trending_topics: results are the gathered outcomes of the source
\* tasks, each a list of topics or None when the task ended in an exception
fetch_all_trending_topics(results, limit) ==
    LET RECURSIVE Combine(_)
        Combine(rs) ==
            IF rs = <<>> THEN <<>>
            ELSE (IF Head(rs) = None THEN <<>> ELSE Head(rs)[1])
                 \o Combine(Tail(rs))
        combined == Combine(results)
        topics == SortDescending(combined,
                      MapSeq([t \in Range(combined) |-> t.score], combined))
    IN  SubSeq(topics, 1, IF Len(topics) < limit THEN Len(topics) ELSE limit)

(***************************************************************************)
(* Topic scorer (topic_processor.py).                                      *)
(***************************************************************************)
TopicText(topic) == lower(topic.title \o <<" ">> \o topic.description)

\* a filter that forgets the blacklist
_is_topic_appropriate_unfiltered(topic) ==
    /\ ~ (Len(topic.title) < min_title_length)
    /\ ~ (Len(topic.title) > max_title_length)
    /\ ~ (topic.score < min_engagement_score)

_is_topic_appropriate(topic) ==
    /\ ~ \E k \in 1..Len(blacklisted_keywords) :
            Contains(blacklisted_keywords[k], TopicText(topic))
    /\ ~ (Len(topic.title) < min_title_length)
    /\ ~ (Len(topic.title) > max_title_length)
    /\ ~ (topic.score < min_engagement_score)

\* max(scores, key=scores.get) returns the first key, in table order, that
\* reaches the highest count
_determine_content_type(topic) ==
    LET text == TopicText(topic)
        scores == [k \in 1..Len(content_patterns) |->
                      Hits(content_patterns[k].patterns, text)]
        first_max == CHOOSE k \in 1..Len(content_patterns) :
                        /\ \A j \in 1..Len(content_patterns) : scores[j] <= scores[k]
                        /\ \A j \in 1..(k - 1) : scores[j] < scores[k]
    IN  IF \E k \in 1..Len(content_patterns) : scores[k] > 0
        THEN content_patterns[first_max].content_type
        ELSE "educational"

\* a score that multiplies the multipliers of every table keyword found
_calculate_estimated_engagement_compound(topic, content_type, now) ==
    LET text == TopicText(topic)
        RECURSIVE KeywordProduct(_)
        KeywordProduct(k) ==
            IF k = 0 THEN 10
            ELSE IF Contains(engagement_multipliers[k].keyword, text)
            THEN (KeywordProduct(k - 1) * engagement_multipliers[k].mult) \div 10
            ELSE KeywordProduct(k - 1)
        source_mult == IF Contains(source_multipliers[1].source, topic.source) THEN 12
                       ELSE IF Contains(source_multipliers[2].source, topic.source) THEN 11
                       ELSE 10
        hours_old == now - topic.created_at[1]
        recency == IF topic.created_at = None THEN 10
                   ELSE IF hours_old < 6 THEN 13
                   ELSE IF hours_old < 24 THEN 11
                   ELSE 10
    IN  topic.score * 10 * KeywordProduct(Len(engagement_multipliers))
            * source_mult * recency

\* score * 10^4: every multiplier is stored as ten times its value
_calculate_estimated_engagement(topic, content_type, now) ==
    LET text == TopicText(topic)
        IsKey(k) == engagement_multipliers[k].key = content_type
        type_mult == IF \E k \in 1..Len(engagement_multipliers) : IsKey(k)
                     THEN engagement_multipliers[
                              CHOOSE k \in 1..Len(engagement_multipliers) : IsKey(k)].mult
                     ELSE 10
        KwHit(k) == Contains(engagement_multipliers[k].keyword, text)
        keyword_mult ==
            IF \E k \in 1..Len(engagement_multipliers) : KwHit(k)
            THEN engagement_multipliers[
                     CHOOSE k \in 1..Len(engagement_multipliers) :
                        KwHit(k) /\ \A j \in 1..(k - 1) : ~KwHit(j)].mult
            ELSE 10
        SrcHit(k) == Contains(source_multipliers[k].source, topic.source)
        source_mult ==
            IF \E k \in 1..Len(source_multipliers) : SrcHit(k)
            THEN source_multipliers[
                     CHOOSE k \in 1..Len(source_multipliers) :
                        SrcHit(k) /\ \A j \in 1..(k - 1) : ~SrcHit(j)].mult
            ELSE 10
        hours_old == now - topic.created_at[1]
        recency == IF topic.created_at = None THEN 10
                   ELSE IF hours_old < 6 THEN 13
                   ELSE IF hours_old < 24 THEN 11
                   ELSE 10
    IN  topic.score * type_mult * keyword_mult * source_mult * recency

\* a classifier without a level for the topics that are neither
_determine_difficulty_level_undecided(topic) ==
    LET text == TopicText(topic)
        complex_score == Hits(complex_keywords, text)
        simple_score == Hits(simple_keywords, text)
    IN  IF complex_score > simple_score THEN "hard"
        ELSE IF simple_score > complex_score THEN "easy"
        ELSE "unknown"

_determine_difficulty_level(topic) ==
    LET text == TopicText(topic)
        complex_score == Hits(complex_keywords, text)
        simple_score == Hits(simple_keywords, text)
    IN  IF complex_score > simple_score THEN "hard"
        ELSE IF simple_score > complex_score THEN "easy"
        ELSE "medium"

\* the first phrasing of each content type, split around the title
video_angles ==
    << [content_type |-> "educational",
        before |-> <<"T","h","e"," ","S","c","i","e","n","c","e"," ","B","e","h","i","n","d"," ">>,
        after |-> <<>>],
       [content_type |-> "entertainment",
        before |-> <<"T","h","e"," ","S","h","o","c","k","i","n","g"," ","T","r","u","t","h"," ","A","b","o","u","t"," ">>,
        after |-> <<>>],
       [content_type |-> "news",
        before |-> <<"B","r","e","a","k","i","n","g",":"," ","W","h","a","t","'","s"," ","H","a","p","p","e","n","i","n","g"," ","w","i","t","h"," ">>,
        after |-> <<>>],
       [content_type |-> "lifestyle",
        before |-> <<"H","o","w"," ">>,
        after |-> <<" ","C","a","n"," ","C","h","a","n","g","e"," ","Y","o","u","r"," ","L","i","f","e">>] >>

engaging_words ==
    << <<"s","h","o","c","k","i","n","g">>,
       <<"a","m","a","z","i","n","g">>,
       <<"s","e","c","r","e","t">>,
       <<"t","r","u","t","h">>,
       <<"f","a","c","t","s">> >>

TitlePrefix == <<"T","h","e"," ","T","r","u","t","h"," ","A","b","o","u","t">>

Ellipsis == <<".",".",".">>

stop_words ==
    << <<"t","h","e">>,
       <<"a">>,
       <<"a","n">>,
       <<"a","n","d">>,
       <<"o","r">>,
       <<"b","u","t">>,
       <<"i","n">>,
       <<"o","n">>,
       <<"a","t">>,
       <<"t","o">>,
       <<"f","o","r">>,
       <<"o","f">>,
       <<"w","i","t","h">>,
       <<"b","y">> >>


_generate_video_angle(topic, content_type) ==
    LET Is(k) == video_angles[k].content_type = content_type
        angle == IF \E k \in 1..Len(video_angles) : Is(k)
                 THEN video_angles[CHOOSE k \in 1..Len(video_angles) : Is(k)]
                 ELSE video_angles[1]
    IN  angle.before \o topic.title \o angle.after

max_processed_title == 60

short_title_length == 30

\* a title that is never cut
_process_title_for_video_uncut(original_title, video_angle) ==
    IF Len(original_title) < short_title_length
    THEN TitlePrefix \o <<" ">> \o original_title
    ELSE original_title

_process_title_for_video(original_title, video_angle) ==
    LET enhanced_title == IF Len(original_title) < short_title_length
                          THEN TitlePrefix \o <<" ">> \o original_title
                          ELSE original_title
    IN  IF /\ Len(video_angle) <= max_processed_title
           /\ \E k \in 1..Len(engaging_words) :
                  Contains(engaging_words[k], lower(video_angle))
        THEN video_angle
        ELSE IF Len(enhanced_title) > max_processed_title
        THEN SubSeq(enhanced_title, 1, max_processed_title - 3) \o Ellipsis
        ELSE enhanced_title

InSeq(x, seq) == \E k \in 1..Len(seq) : seq[k] = x

max_target_keywords == 10

_extract_target_keywords(topic) ==
    LET all_words == FindWords(lower(topic.title))
                     \o FindWords(lower(topic.description))
        filtered_words == SelectSeq(all_words,
                              LAMBDA w : ~InSeq(w, stop_words) /\ Len(w) > 2)
        RECURSIVE AddUnique(_, _)
        AddUnique(keywords, words) ==
            IF words = <<>> THEN keywords
            ELSE AddUnique(IF InSeq(Head(words), keywords) THEN keywords
                           ELSE Append(keywords, Head(words)),
                           Tail(words))
        keywords == AddUnique(topic.keywords, filtered_words)
    IN  SubSeq(keywords, 1, IF Len(keywords) < max_target_keywords
                            THEN Len(keywords) ELSE max_target_keywords)

_process_single_topic(topic, now) ==
    LET content_type == _determine_content_type(topic)
        video_angle == _generate_video_angle(topic, content_type)
    IN  [original_topic |-> topic,
         processed_title |-> _process_title_for_video(topic.title, video_angle),
         video_angle |-> video_angle,
         target_keywords |-> _extract_target_keywords(topic),
         estimated_engagement |->
             _calculate_estimated_engagement(topic, content_type, now),
         content_type |-> content_type,
         difficulty_level |-> _determine_difficulty_level(topic)]

\* a title that is not a string (None): `topic.title + " "` raises TypeError
NoneTitle == <<"None">>

\* hasattr(topic, "title")
HasTitle(topic) == "title" \in DOMAIN topic

\* the body of the try block raises for this topic
TopicRaises(topic) == ~HasTitle(topic) \/ topic.title = NoneTitle

\* the except clause formats topic.title into its log line, which raises
\* again, outside any try, when the topic has no such attribute
process_topics_raises(topics) ==
    \E k \in 1..Len(topics) : ~HasTitle(topics[k])

\* the list returned when no exception leaves the loop
process_topics(topics, now) ==
    LET RECURSIVE Loop(_)
        Loop(ts) ==
            IF ts = <<>> THEN <<>>
            ELSE (IF TopicRaises(Head(ts)) THEN <<>>
                  ELSE IF _is_topic_appropriate(Head(ts))
                  THEN <<_process_single_topic(Head(ts), now)>>
                  ELSE <<>>) \o Loop(Tail(ts))
        processed_topics == Loop(topics)
    IN  SortDescending(processed_topics,
            MapSeq([t \in Range(processed_topics) |-> t.estimated_engagement],
                   processed_topics))

\* a selection that ignores the difficulty level
get_best_topic_for_video_first(topics, now) ==
    LET processed_topics == process_topics(topics, now)
    IN  IF processed_topics = <<>> THEN None ELSE Some(processed_topics[1])

\* None when nothing survives, else the first easy/medium topic, else the first
get_best_topic_for_video(topics, now) ==
    LET processed_topics == process_topics(topics, now)
        easy_topics == SelectSeq(processed_topics,
                           LAMBDA t : t.difficulty_level \in {"easy", "medium"})
    IN  IF processed_topics = <<>> THEN None
        ELSE IF easy_topics # <<>> THEN Some(easy_topics[1])
        ELSE Some(processed_topics[1])

get_topic_statistics(topics) ==
    IF topics = <<>> THEN [total_topics |-> 0]
    ELSE [total_topics |-> Len(topics),
          hard_topics |-> Len(SelectSeq(topics,
                                LAMBDA t : t.difficulty_level = "hard"))]

(***************************************************************************)
(* Script generator (script_generator.py).                                 *)
(***************************************************************************)
SCRIPT_MAX_WORDS == 75

VIDEO_DURATION_SECONDS == 60

min_script_words == 20

min_script_chars == 50

HookEducationalPrefix ==
    <<"H","e","r","e","'","s"," ","w","h","a","t"," ","y","o","u"," ",
      "n","e","e","d"," ","t","o"," ","k","n","o","w"," ","a","b","o",
      "u","t"," ">>

HookShockingPrefix ==
    <<"T","h","e"," ","s","h","o","c","k","i","n","g"," ","t","r","u",
      "t","h"," ","a","b","o","u","t"," ">>

HookTalkingPrefix ==
    <<"H","e","r","e","'","s"," ","w","h","y"," ","e","v","e","r","y",
      "o","n","e","'","s"," ","t","a","l","k","i","n","g"," ","a","b",
      "o","u","t"," ">>

HookBelievePrefix ==
    <<"Y","o","u"," ","w","o","n","'","t"," ","b","e","l","i","e","v",
      "e"," ","w","h","a","t"," ","I"," ","j","u","s","t"," ","l","e",
      "a","r","n","e","d"," ","a","b","o","u","t"," ">>

HookSuffix ==
    <<"!">>

MainContentPrefix ==
    <<"\n"," "," "," "," "," "," "," "," ","F","i","r","s","t",","," ">>

MainContentSuffix ==
    <<" ","i","s"," ","m","o","r","e"," ","i","m","p","o","r","t","a",
      "n","t"," ","t","h","a","n"," ","m","o","s","t"," ","p","e","o",
      "p","l","e"," ","r","e","a","l","i","z","e",".","\n"," "," "," ",
      " "," "," "," "," ","\n"," "," "," "," "," "," "," "," ","S","e",
      "c","o","n","d",","," ","r","e","c","e","n","t"," ","s","t","u",
      "d","i","e","s"," ","s","h","o","w"," ","f","a","s","c","i","n",
      "a","t","i","n","g"," ","i","n","s","i","g","h","t","s"," ","a",
      "b","o","u","t"," ","t","h","i","s"," ","t","o","p","i","c",".",
      "\n"," "," "," "," "," "," "," "," ","\n"," "," "," "," "," "," ",
      " "," ","F","i","n","a","l","l","y",","," ","t","h","i","s"," ",
      "c","o","u","l","d"," ","i","m","p","a","c","t"," ","y","o","u",
      "r"," ","d","a","i","l","y"," ","l","i","f","e"," ","i","n"," ",
      "w","a","y","s"," ","y","o","u"," ","n","e","v","e","r"," ","i",
      "m","a","g","i","n","e","d",".","\n"," "," "," "," "," "," "," ",
      " ">>

CtaTemplate ==
    <<"W","h","a","t"," ","d","o"," ","y","o","u"," ","t","h","i","n",
      "k","?"," ","D","r","o","p"," ","a"," ","c","o","m","m","e","n",
      "t"," ","b","e","l","o","w","!">>


LLMLongWords == 40      \* words of a wordy language-model response

\* a text of n one-letter words
Words(n) == [i \in 1..(2 * n - 1) |-> IF i % 2 = 1 THEN "w" ELSE " "]

\* what the configured language-model clients hand back for one prompt:
\* None when no client is configured, the call fails or the answer is empty
LLMResponses == {None, Some(Words(LLMLongWords))}

_generate_hook_template(topic) ==
    (CASE topic.content_type = "educational" -> HookEducationalPrefix
       [] topic.content_type = "entertainment" -> HookShockingPrefix
       [] topic.content_type = "news" -> HookTalkingPrefix
       [] OTHER -> HookBelievePrefix)
    \o topic.original_topic.title \o HookSuffix

_generate_main_content_template(topic) ==
    MainContentPrefix \o topic.original_topic.title \o MainContentSuffix

_generate_cta_template(topic) == CtaTemplate

_generate_hook(topic, response) ==
    IF response # None THEN Strip(response[1])
    ELSE _generate_hook_template(topic)

_generate_main_content(topic, response) ==
    IF response # None THEN Strip(response[1])
    ELSE _generate_main_content_template(topic)

_generate_call_to_action(topic, response) ==
    IF response # None THEN Strip(response[1])
    ELSE _generate_cta_template(topic)

\* int(word_count / 2.5)
_estimate_duration(word_count) == (word_count * 2) \div 5

\* a validation without the upper limit on words
_validate_script_unlimited(script_text, word_count, duration) ==
    /\ ~ (duration > VIDEO_DURATION_SECONDS)
    /\ ~ (word_count < min_script_words)
    /\ ~ (script_text = <<>> \/ Len(Strip(script_text)) < min_script_chars)

_validate_script(script_text, word_count, duration) ==
    /\ ~ (word_count > SCRIPT_MAX_WORDS)
    /\ ~ (duration > VIDEO_DURATION_SECONDS)
    /\ ~ (word_count < min_script_words)
    /\ ~ (script_text = <<>> \/ Len(Strip(script_text)) < min_script_chars)

\* None when the assembled script fails validation
generate_script(topic, hook_response, main_response, cta_response, now) ==
    LET hook == _generate_hook(topic, hook_response)
        main_content == _generate_main_content(topic, main_response)
        call_to_action == _generate_call_to_action(topic, cta_response)
        full_script == hook \o <<"\n", "\n">> \o main_content
                            \o <<"\n", "\n">> \o call_to_action
        word_count == WordCount(full_script)
        estimated_duration == _estimate_duration(word_count)
    IN  IF ~_validate_script(full_script, word_count, estimated_duration)
        THEN None
        ELSE Some([topic |-> topic,
                   hook |-> hook,
                   main_content |-> main_content,
                   call_to_action |-> call_to_action,
                   full_script |-> full_script,
                   word_count |-> word_count,
                   estimated_duration |-> estimated_duration,
                   style |-> "engaging",
                   generated_at |-> now])

\* a collection that stops at the first result that is not a script
generate_multiple_scripts_stopping(gathered) ==
    LET RECURSIVE Loop(_)
        Loop(rs) ==
            IF rs = <<>> THEN <<>>
            ELSE IF Head(rs).raised \/ Head(rs).value = None THEN <<>>
            ELSE <<Head(rs).value[1]>> \o Loop(Tail(rs))
    IN  Loop(gathered)

\* generate_multiple_scripts after the gather: gathered[k] is the outcome of
\* the k-th generate_script task, an exception (raised) or the value it
\* returned; the GeneratedScript values are collected in task order
generate_multiple_scripts(gathered) ==
    LET RECURSIVE Loop(_)
        Loop(rs) ==
            IF rs = <<>> THEN <<>>
            ELSE (IF ~Head(rs).raised /\ Head(rs).value # None
                  THEN <<Head(rs).value[1]>> ELSE <<>>) \o Loop(Tail(rs))
    IN  Loop(gathered)
(***************************************************************************)
(* Adapters behind the orchestrator's stage helpers.                       *)
(***************************************************************************)

\* VoiceoverGenerator.generate_voiceover with the default preferred provider:
\* ElevenLabs first, then Google TTS, None when both fail
generate_voiceover(elevenlabs_ok, gtts_ok) ==
    IF elevenlabs_ok
    THEN Some([audio_path |-> "output/audio/voiceover_elevenlabs.mp3",
               provider |-> "elevenlabs"])
    ELSE IF gtts_ok
    THEN Some([audio_path |-> "output/audio/voiceover_gtts.mp3",
               provider |-> "gtts"])
    ELSE None

max_retries == 3

\* what an insert request can do: answer ("ok"), fail with an HttpError of
\* some status, or fail with another exception ("error")
HttpErrors ==
    {"http_403", "http_500", "http_501", "http_502", "http_503", "http_504"}

\* error_code in [500, 502, 503, 504]
temporary_errors == {"http_500", "http_502", "http_503", "http_504"}

UploadOutcomes == {"ok", "http_503", "http_403", "error"}

\* a loop that waits after its last attempt as well
_execute_upload_with_retry_waiting(outcomes) ==
    LET Failed(last_error, attempts, sleeps) ==
            [success |-> FALSE, video_id |-> None,
             error_message |-> last_error[1],
             attempts |-> attempts, sleeps |-> sleeps]
        RECURSIVE Loop(_, _, _)
        Loop(attempt, last_error, sleeps) ==
            IF attempt >= max_retries THEN Failed(last_error, attempt, sleeps)
            ELSE LET outcome == outcomes[attempt + 1]
                 IN  IF outcome = "ok"
                     THEN [success |-> TRUE, video_id |-> Some("video_id"),
                           error_message |-> "",
                           attempts |-> attempt + 1, sleeps |-> sleeps]
                     ELSE IF outcome \in HttpErrors \ temporary_errors
                     THEN Failed(Some(outcome), attempt + 1, sleeps)
                     ELSE Loop(attempt + 1, Some(outcome), sleeps + 1)
    IN  Loop(0, None, 0)

\* a loop that takes every HTTP error for a temporary one
_execute_upload_with_retry_lenient(outcomes) ==
    LET RECURSIVE Loop(_, _, _)
        Loop(attempt, last_error, sleeps) ==
            IF attempt >= max_retries
            THEN [success |-> FALSE, video_id |-> None,
                  error_message |-> last_error[1],
                  attempts |-> attempt, sleeps |-> sleeps]
            ELSE LET outcome == outcomes[attempt + 1]
                     wait == IF attempt < max_retries - 1 THEN 1 ELSE 0
                 IN  IF outcome = "ok"
                     THEN [success |-> TRUE, video_id |-> Some("video_id"),
                           error_message |-> "",
                           attempts |-> attempt + 1, sleeps |-> sleeps]
                     ELSE Loop(attempt + 1, Some(outcome), sleeps + wait)
    IN  Loop(0, None, 0)

\* YouTubeUploader._execute_upload_with_retry; outcomes[k] is what the k-th
\* insert request would do.  attempts and sleeps count the requests made and
\* the retry delays waited.
_execute_upload_with_retry(outcomes) ==
    LET Failed(last_error, attempts, sleeps) ==
            [success |-> FALSE, video_id |-> None,
             error_message |-> IF last_error = None
                               THEN "Upload failed after all retries"
                               ELSE last_error[1],
             attempts |-> attempts, sleeps |-> sleeps]
        RECURSIVE Loop(_, _, _)
        Loop(attempt, last_error, sleeps) ==
            IF attempt >= max_retries THEN Failed(last_error, attempt, sleeps)
            ELSE LET outcome == outcomes[attempt + 1]
                     wait == IF attempt < max_retries - 1 THEN 1 ELSE 0
                 IN  CASE outcome = "ok" ->
                            [success |-> TRUE, video_id |-> Some("video_id"),
                             error_message |-> "",
                             attempts |-> attempt + 1, sleeps |-> sleeps]
                       [] outcome \in temporary_errors ->
                            Loop(attempt + 1, Some(outcome), sleeps + wait)
                       [] outcome \in HttpErrors \ temporary_errors ->
                            Failed(Some(outcome), attempt + 1, sleeps)
                       [] OTHER ->
                            Loop(attempt + 1, Some(outcome), sleeps + wait)
    IN  Loop(0, None, 0)

max_tags_length == 500

max_request_title == 100

privacy_statuses == {"private", "public", "unlisted"}

\* YouTubeUploader._prepare_upload_request: "Shorts" is appended when no tag
\* is "shorts" in lower case, then the tags are cut to the longest prefix
\* whose tags, each counted with one separator, fit the limit
_prepare_upload_request(video_metadata) ==
    LET given == video_metadata.tags
        tags == IF \E k \in 1..Len(given) : lower(given[k]) = <<"s","h","o","r","t","s">>
                THEN given
                ELSE Append(given, <<"S","h","o","r","t","s">>)
        RECURSIVE Joined(_)
        Joined(n) == IF n = 0 THEN 0
                     ELSE Joined(n - 1) + Len(tags[n]) + (IF n > 1 THEN 1 ELSE 0)
        RECURSIVE Truncated(_, _)
        Truncated(k, current_length) ==
            IF k > Len(tags) THEN <<>>
            ELSE IF current_length + Len(tags[k]) + 1 <= max_tags_length
            THEN <<tags[k]>> \o Truncated(k + 1, current_length + Len(tags[k]) + 1)
            ELSE <<>>
    IN  [snippet |->
            [title |-> SubSeq(video_metadata.title, 1,
                              IF Len(video_metadata.title) < max_request_title
                              THEN Len(video_metadata.title) ELSE max_request_title),
             tags |-> IF Joined(Len(tags)) > max_tags_length
                      THEN Truncated(1, 0) ELSE tags,
             categoryId |-> video_metadata.category],
         status |->
            [privacyStatus |-> IF video_metadata.privacy \in privacy_statuses
                               THEN video_metadata.privacy ELSE "public"]]

\* YouTubeUploader.upload_video
upload_video(youtube_service, video_exists, outcomes) ==
    IF ~youtube_service
    THEN [success |-> FALSE, video_id |-> None,
          error_message |-> "YouTube service not available",
          attempts |-> 0, sleeps |-> 0]
    ELSE IF ~video_exists
    THEN [success |-> FALSE, video_id |-> None,
          error_message |-> "Video file not found",
          attempts |-> 0, sleeps |-> 0]
    ELSE _execute_upload_with_retry(outcomes)

\* YouTubeUploader.test_authentication: the service exists and the channel
\* listing succeeds with at least one channel
test_authentication(youtube_service, channel_found) ==
    youtube_service /\ channel_found

(***************************************************************************)
(* Orchestrator stage helpers (main.py).  Each returns a record: raised    *)
(* tells whether an exception leaves the helper, fallback whether the      *)
(* except branch ran.                                                      *)
(***************************************************************************)
PlaceholderWriteError == "[Errno 13] Permission denied: placeholder"

\* an adapter outcome is "ok", "none" (no artifact) or "raise"; write_ok tells
\* whether the placeholder file of the except branch can be written
AdapterOutcomes == {"ok", "none", "raise"}

_generate_voiceover_placeholder(script, adapter_raises, elevenlabs_ok, gtts_ok, write_ok) ==
    LET voiceover == IF adapter_raises THEN None
                     ELSE generate_voiceover(elevenlabs_ok, gtts_ok)
    IN  IF voiceover # None
        THEN [raised |-> FALSE, fallback |-> FALSE,
              value |-> voiceover[1].audio_path]
        ELSE IF write_ok
        THEN [raised |-> FALSE, fallback |-> TRUE,
              value |-> "output/audio/voiceover.mp3"]
        ELSE [raised |-> TRUE, fallback |-> TRUE,
              error |-> PlaceholderWriteError]

_generate_visuals_placeholder(topic, adapter, write_ok) ==
    IF adapter = "ok"
    THEN [raised |-> FALSE, fallback |-> FALSE,
          value |-> "output/images/pexels.jpg"]
    ELSE IF write_ok
    THEN [raised |-> FALSE, fallback |-> TRUE,
          value |-> "output/images/visuals.jpg"]
    ELSE [raised |-> TRUE, fallback |-> TRUE, error |-> PlaceholderWriteError]

_generate_video_placeholder(script, voiceover_path, visuals_path, adapter, write_ok) ==
    IF adapter = "ok"
    THEN [raised |-> FALSE, fallback |-> FALSE,
          value |-> "output/videos/short.mp4"]
    ELSE IF write_ok
    THEN [raised |-> FALSE, fallback |-> TRUE,
          value |-> "output/videos/video.mp4"]
    ELSE [raised |-> TRUE, fallback |-> TRUE, error |-> PlaceholderWriteError]

\* the except branch builds a dictionary and cannot raise
_generate_metadata_placeholder(script, adapter) ==
    IF adapter = "ok"
    THEN [raised |-> FALSE, fallback |-> FALSE,
          value |-> [title |-> script.topic.processed_title,
                     tags |-> script.topic.target_keywords,
                     category |-> "27", privacy |-> "public",
                     language |-> "en"]]
    ELSE [raised |-> FALSE, fallback |-> TRUE,
          value |-> [title |-> script.topic.processed_title,
                     tags |-> script.topic.target_keywords,
                     category |-> "Education", privacy |-> "public",
                     thumbnail |-> "auto"]]

\* never raises: every path returns a status dictionary (value); calls and
\* attempts count the upload_video invocations and the insert requests made
_upload_to_youtube_placeholder(video_path, metadata, adapter_raises, youtube_service, channel_found, outcomes) ==
    LET upload_result == upload_video(youtube_service, TRUE, outcomes)
    IN  IF adapter_raises
        THEN [value |-> [status |-> "upload_error", error |-> "import error",
                         video_path |-> video_path],
              fallback |-> TRUE, calls |-> 0, attempts |-> 0]
        ELSE IF ~test_authentication(youtube_service, channel_found)
        THEN [value |-> [status |-> "authentication_failed",
                         error |-> "YouTube credentials not available"],
              fallback |-> FALSE, calls |-> 0, attempts |-> 0]
        ELSE IF upload_result.success
        THEN [value |-> [status |-> "uploaded",
                         video_id |-> upload_result.video_id[1]],
              fallback |-> FALSE, calls |-> 1,
              attempts |-> upload_result.attempts]
        ELSE [value |-> [status |-> "upload_failed",
                         error |-> upload_result.error_message],
              fallback |-> FALSE, calls |-> 1,
              attempts |-> upload_result.attempts]

(***************************************************************************)
(* The orchestrator: YouTubeShortsOrchestrator.run_full_pipeline and the   *)
(* run-once command of main().                                             *)
(***************************************************************************)
VARIABLES
    pc,                  \* "main", the stage about to run, "returned", "exited"
    debug,               \* the --debug flag
    now,                 \* clock reading, in hours
    ticks,               \* clock ticks so far
    trending_topics,     \* result of the fetch stage
    processed_topics,    \* result of the rank stage
    best_topic,          \* Optional ProcessedTopic
    script,              \* Optional GeneratedScript
    voiceover_filepath,  \* Optional path
    visuals_filepath,    \* Optional path
    video_filepath,      \* Optional path
    metadata,            \* Optional metadata dictionary
    pipeline_results,    \* the run record
    executed,            \* stages started so far, in order
    warnings,            \* stages that logged a failed adapter
    upload_calls,        \* invocations of YouTubeUploader.upload_video
    upload_attempts,     \* insert requests sent to the upload service
    results_file,        \* Optional persisted run record
    exit_code,           \* Optional process exit code
    gather_results,      \* what asyncio.gather holds for each task, in task order
    scripts,             \* list returned by generate_multiple_scripts
    saved_file,          \* Optional content of a saved JSON file
    loaded,              \* Optional object read back from that file
    request_body,        \* Optional body built by _prepare_upload_request
    upload_responses,    \* what the upload service answers, request by request
    upload_result        \* Optional UploadResult

vars == <<pc, debug, now, ticks, trending_topics, processed_topics, best_topic,
          script, voiceover_filepath, visuals_filepath, video_filepath,
          metadata, pipeline_results, executed, warnings, upload_calls,
          upload_attempts, results_file, exit_code, gather_results, scripts,
          saved_file, loaded, request_body, upload_responses, upload_result>>

\* the state of the component calls made outside a pipeline run
standalone == <<gather_results, scripts, saved_file, loaded, request_body,
                upload_responses, upload_result>>

\* no such call was made
NoCalls ==
    /\ gather_results = <<>>
    /\ scripts = <<>>
    /\ saved_file = <<>>
    /\ loaded = <<>>
    /\ request_body = <<>>
    /\ upload_responses = <<>>
    /\ upload_result = <<>>

artifacts == <<trending_topics, processed_topics, best_topic, script,
               voiceover_filepath, visuals_filepath, video_filepath, metadata>>

StageOrder ==
    <<"fetch_topics", "rank_topics", "select_topic", "generate_script",
      "generate_voiceover", "generate_visuals", "generate_video",
      "generate_metadata", "upload">>

Stages == {StageOrder[k] : k \in 1..Len(StageOrder)}

\* a pipeline that renders the video before the visuals exist
StageAfterSwapped(stage) ==
    CASE stage = "generate_voiceover" -> "generate_video"
      [] stage = "generate_video" -> "generate_visuals"
      [] stage = "generate_visuals" -> "generate_metadata"
      [] stage = "upload" -> "returned"
      [] OTHER -> StageOrder[1 + CHOOSE i \in 1..Len(StageOrder) :
                                  StageOrder[i] = stage]

\* the statement that follows a stage in run_full_pipeline
StageAfter(stage) ==
    LET k == CHOOSE i \in 1..Len(StageOrder) : StageOrder[i] = stage
    IN  IF k < Len(StageOrder) THEN StageOrder[k + 1] ELSE "returned"

NoTopicsError == "No trending topics found"

NoSuitableTopicsError == "No suitable topics found after processing"

NoBestTopicError == "'NoneType' object has no attribute 'processed_title'"

NoScriptError == "'NoneType' object has no attribute 'word_count'"

fetch_limit == 15

\* a run that goes on without topics
NoTopicsFoundNever(topics) == FALSE

\* `if not trending_topics` after Step 1
NoTopicsFound(topics) == topics = <<>>

\* a run that goes on without ranked topics
NoSuitableTopicsNever(processed) == FALSE

\* `if not processed_topics` after Step 2
NoSuitableTopics(processed) == processed = <<>>

\* pipeline_results["steps"][name] = data
AddStep(results, name, data) ==
    [results EXCEPT !.steps = Append(@, [name |-> name, data |-> data])]

HasStep(results, name) ==
    \E k \in 1..Len(results.steps) : results.steps[k].name = name

StepData(results, name) ==
    results.steps[CHOOSE k \in 1..Len(results.steps) :
                      results.steps[k].name = name].data

\* an except clause that stamps the record as completed
HandleExceptionCompleted(results, e, t) ==
    [results EXCEPT !.error = Some(e), !.completed_at = Some(t)]

\* the except clause of run_full_pipeline
HandleException(results, e, t) ==
    [results EXCEPT !.error = Some(e), !.failed_at = Some(t)]

\* the end of the try block of run_full_pipeline
MarkCompleted(results, t) ==
    [results EXCEPT !.success = TRUE, !.completed_at = Some(t)]

Init ==
    /\ pc = "main"
    /\ debug \in BOOLEAN
    /\ now = StartNow
    /\ ticks = 0
    /\ trending_topics = <<>>
    /\ processed_topics = <<>>
    /\ best_topic = None
    /\ script = None
    /\ voiceover_filepath = None
    /\ visuals_filepath = None
    /\ video_filepath = None
    /\ metadata = None
    /\ pipeline_results = None
    /\ executed = <<>>
    /\ warnings = {}
    /\ upload_calls = 0
    /\ upload_attempts = 0
    /\ results_file = None
    /\ exit_code = None
    /\ NoCalls

\* the stages whose outcome depends on how long ago the topics were fetched
ClockStages == {"rank_topics", "select_topic"}

\* time passes between the fetch of the topics and their selection
Tick ==
    /\ pc \in ClockStages
    /\ ticks < MaxTicks
    /\ now' = now + 1
    /\ ticks' = ticks + 1
    /\ UNCHANGED <<pc, debug, artifacts, pipeline_results, executed, warnings,
                   upload_calls, upload_attempts, results_file, exit_code,
                   standalone>>

\* main() with --run-once: run_full_pipeline creates the run record
RunOnce ==
    /\ pc = "main"
    /\ pipeline_results' = Some([started_at |-> now, steps |-> <<>>,
                                 success |-> FALSE, error |-> None,
                                 completed_at |-> None, failed_at |-> None])
    /\ pc' = "fetch_topics"
    /\ UNCHANGED <<debug, now, ticks, artifacts, executed, warnings,
                   upload_calls, upload_attempts, results_file, exit_code,
                   standalone>>

\* a stage ends: either an exception reaches the except clause (error is
\* Some message) or the next statement runs
Finish(stage, results, error) ==
    /\ executed' = Append(executed, stage)
    /\ IF error # None
       THEN /\ pipeline_results' = Some(HandleException(results, error[1], now))
            /\ pc' = "returned"
       ELSE IF StageAfter(stage) = "returned"
       THEN /\ pipeline_results' = Some(MarkCompleted(results, now))
            /\ pc' = "returned"
       ELSE /\ pipeline_results' = Some(results)
            /\ pc' = StageAfter(stage)
    /\ UNCHANGED <<debug, now, ticks, results_file, exit_code, standalone>>

\* what the Google and Reddit source tasks return; each task catches its own
\* exceptions and returns the topics gathered so far
GoogleResults(t) ==
    {Some(fetch_google_trends(l, t)) : l \in SeqsUpTo(GoogleTitles, MaxTrends)}

RedditResults(t) ==
    {Some(fetch_reddit_trends(l, t)) : l \in SeqsUpTo(RedditPosts, MaxPosts)}

\* Step 1
FetchTopics ==
    /\ pc = "fetch_topics"
    /\ \E g \in GoogleResults(now),
          r \in {<<>>} \cup {<<x>> : x \in RedditResults(now)} :
          \E topics \in {fetch_all_trending_topics(<<g>> \o r, fetch_limit)} :
          LET results == AddStep(pipeline_results[1], "trending_topics",
                             [count |-> Len(topics),
                              topics |-> [i \in 1..(IF Len(topics) < 5
                                                    THEN Len(topics) ELSE 5)
                                             |-> topics[i].title]])
          IN  /\ trending_topics' = topics
              /\ Finish("fetch_topics", results,
                        IF NoTopicsFound(topics) THEN Some(NoTopicsError)
                        ELSE None)
    /\ UNCHANGED <<processed_topics, best_topic, script, voiceover_filepath,
                   visuals_filepath, video_filepath, metadata, warnings,
                   upload_calls, upload_attempts>>

\* Step 2
RankTopics ==
    /\ pc = "rank_topics"
    /\ \E processed \in {process_topics(trending_topics, now)} :
       LET results == AddStep(pipeline_results[1], "processed_topics",
                          [count |-> Len(processed),
                           statistics |-> get_topic_statistics(processed)])
       IN  /\ processed_topics' = processed
           /\ Finish("rank_topics", results,
                     IF NoSuitableTopics(processed)
                     THEN Some(NoSuitableTopicsError) ELSE None)
    /\ UNCHANGED <<trending_topics, best_topic, script, voiceover_filepath,
                   visuals_filepath, video_filepath, metadata, warnings,
                   upload_calls, upload_attempts>>

\* Step 3: the scorer runs again on the raw topics
SelectTopic ==
    /\ pc = "select_topic"
    /\ \E best \in {get_best_topic_for_video(trending_topics, now)} :
           /\ best_topic' = best
           /\ IF best = None
              THEN Finish("select_topic", pipeline_results[1],
                          Some(NoBestTopicError))
              ELSE Finish("select_topic",
                          AddStep(pipeline_results[1], "selected_topic",
                              [title |-> best[1].processed_title,
                               content_type |-> best[1].content_type,
                               engagement_score |-> best[1].estimated_engagement,
                               difficulty |-> best[1].difficulty_level]),
                          None)
    /\ UNCHANGED <<trending_topics, processed_topics, script,
                   voiceover_filepath, visuals_filepath, video_filepath,
                   metadata, warnings, upload_calls, upload_attempts>>

\* Step 4: a missing script is dereferenced; a script is saved to its file
GenerateScript ==
    /\ pc = "generate_script"
    /\ \E h \in LLMResponses, m \in LLMResponses, c \in LLMResponses :
          \E s \in {generate_script(best_topic[1], h, m, c, now)} :
              /\ script' = s
              /\ warnings' = IF s = None
                             THEN warnings \cup {"generate_script"}
                             ELSE warnings
              /\ IF s = None
                 THEN Finish("generate_script", pipeline_results[1],
                             Some(NoScriptError))
                 ELSE Finish("generate_script",
                             AddStep(pipeline_results[1], "script_generation",
                                 [word_count |-> s[1].word_count,
                                  estimated_duration |-> s[1].estimated_duration,
                                  style |-> s[1].style,
                                  filepath |-> "output/metadata/script.json"]),
                             None)
    /\ UNCHANGED <<trending_topics, processed_topics, best_topic,
                   voiceover_filepath, visuals_filepath, video_filepath,
                   metadata, upload_calls, upload_attempts>>

\* Step 5
GenerateVoiceover ==
    /\ pc = "generate_voiceover"
    /\ \E adapter_raises \in BOOLEAN, elevenlabs_ok \in BOOLEAN,
          gtts_ok \in BOOLEAN, write_ok \in BOOLEAN :
          \E r \in {_generate_voiceover_placeholder(script[1], adapter_raises,
                       elevenlabs_ok, gtts_ok, write_ok)} :
              /\ warnings' = IF r.fallback
                             THEN warnings \cup {"generate_voiceover"}
                             ELSE warnings
              /\ IF r.raised
                 THEN /\ UNCHANGED voiceover_filepath
                      /\ Finish("generate_voiceover", pipeline_results[1],
                                Some(r.error))
                 ELSE /\ voiceover_filepath' = Some(r.value)
                      /\ Finish("generate_voiceover",
                                AddStep(pipeline_results[1], "voiceover",
                                    [filepath |-> r.value,
                                     duration |-> script[1].estimated_duration]),
                                None)
    /\ UNCHANGED <<trending_topics, processed_topics, best_topic, script,
                   visuals_filepath, video_filepath, metadata, upload_calls,
                   upload_attempts>>

\* Step 6
GenerateVisuals ==
    /\ pc = "generate_visuals"
    /\ \E adapter \in AdapterOutcomes, write_ok \in BOOLEAN :
          \E r \in {_generate_visuals_placeholder(best_topic[1], adapter, write_ok)} :
              /\ warnings' = IF r.fallback
                             THEN warnings \cup {"generate_visuals"}
                             ELSE warnings
              /\ IF r.raised
                 THEN /\ UNCHANGED visuals_filepath
                      /\ Finish("generate_visuals", pipeline_results[1],
                                Some(r.error))
                 ELSE /\ visuals_filepath' = Some(r.value)
                      /\ Finish("generate_visuals",
                                AddStep(pipeline_results[1], "visuals",
                                    [filepath |-> r.value,
                                     type |-> "placeholder"]),
                                None)
    /\ UNCHANGED <<trending_topics, processed_topics, best_topic, script,
                   voiceover_filepath, video_filepath, metadata, upload_calls,
                   upload_attempts>>

\* Step 7
GenerateVideo ==
    /\ pc = "generate_video"
    /\ \E adapter \in AdapterOutcomes, write_ok \in BOOLEAN :
          \E r \in {_generate_video_placeholder(script[1], voiceover_filepath[1],
                       visuals_filepath[1], adapter, write_ok)} :
              /\ warnings' = IF r.fallback
                             THEN warnings \cup {"generate_video"}
                             ELSE warnings
              /\ IF r.raised
                 THEN /\ UNCHANGED video_filepath
                      /\ Finish("generate_video", pipeline_results[1],
                                Some(r.error))
                 ELSE /\ video_filepath' = Some(r.value)
                      /\ Finish("generate_video",
                                AddStep(pipeline_results[1], "video",
                                    [filepath |-> r.value,
                                     resolution |-> "720x1280",
                                     duration |-> script[1].estimated_duration]),
                                None)
    /\ UNCHANGED <<trending_topics, processed_topics, best_topic, script,
                   voiceover_filepath, visuals_filepath, metadata,
                   upload_calls, upload_attempts>>

\* Step 8
GenerateMetadata ==
    /\ pc = "generate_metadata"
    /\ \E adapter \in {"ok", "raise"} :
          \E r \in {_generate_metadata_placeholder(script[1], adapter)} :
              /\ warnings' = IF r.fallback
                             THEN warnings \cup {"generate_metadata"}
                             ELSE warnings
              /\ metadata' = Some(r.value)
              /\ Finish("generate_metadata",
                        AddStep(pipeline_results[1], "metadata", r.value), None)
    /\ UNCHANGED <<trending_topics, processed_topics, best_topic, script,
                   voiceover_filepath, visuals_filepath, video_filepath,
                   upload_calls, upload_attempts>>

\* what the upload service answers to the insert requests; no request is
\* sent unless the uploader was built and authenticated
UploadResponses(requests_sent) ==
    IF requests_sent THEN [1..max_retries -> UploadOutcomes]
    ELSE {[k \in 1..max_retries |-> "ok"]}

\* an upload that ignores the debug flag
UploadAlways(debug_flag) == TRUE

\* whether Step 9 calls the upload helper
UploadEnabled(debug_flag) == ~debug_flag

\* Step 9, and the end of the try block
Upload ==
    /\ pc = "upload"
    /\ IF UploadEnabled(debug)
       THEN \E adapter_raises \in BOOLEAN, youtube_service \in BOOLEAN,
               channel_found \in BOOLEAN :
               \E outcomes \in UploadResponses(~adapter_raises /\ youtube_service
                                                  /\ channel_found) :
               \E r \in {_upload_to_youtube_placeholder(video_filepath[1],
                            metadata[1], adapter_raises, youtube_service,
                            channel_found, outcomes)} :
                   /\ warnings' = IF r.fallback THEN warnings \cup {"upload"}
                                  ELSE warnings
                   /\ upload_calls' = upload_calls + r.calls
                   /\ upload_attempts' = upload_attempts + r.attempts
                   /\ Finish("upload",
                             AddStep(pipeline_results[1], "upload", r.value),
                             None)
       ELSE /\ UNCHANGED <<warnings, upload_calls, upload_attempts>>
            /\ Finish("upload",
                      AddStep(pipeline_results[1], "upload",
                          [status |-> "skipped_debug"]),
                      None)
    /\ UNCHANGED artifacts

\* a command that writes the report of successful runs only
ShouldSaveOnSuccess(results) == results.success

\* whether the run-once command writes the report of a run
ShouldSave(results) == TRUE

\* the exit code of the process after the run-once command
ExitCode(results) == 0

\* main() after run_full_pipeline returned: save_pipeline_results, then the
\* process ends
SaveAndExit ==
    /\ pc = "returned"
    /\ results_file' = IF ShouldSave(pipeline_results[1])
                       THEN pipeline_results ELSE results_file
    /\ exit_code' = Some(ExitCode(pipeline_results[1]))
    /\ pc' = "exited"
    /\ UNCHANGED <<debug, now, ticks, artifacts, pipeline_results, executed,
                   warnings, upload_calls, upload_attempts, standalone>>

Next ==
    \/ Tick
    \/ RunOnce
    \/ FetchTopics
    \/ RankTopics
    \/ SelectTopic
    \/ GenerateScript
    \/ GenerateVoiceover
    \/ GenerateVisuals
    \/ GenerateVideo
    \/ GenerateMetadata
    \/ Upload
    \/ SaveAndExit

Spec == Init /\ [][Next]_vars

(***************************************************************************)
(* Properties of the pipeline.                                             *)
(***************************************************************************)
\* the run record once run_full_pipeline has returned it
Returned == pc \in {"returned", "exited"}

Started(stage) == \E k \in 1..Len(executed) : executed[k] = stage

\* the key of pipeline_results["steps"] a stage writes
StepName(stage) ==
    CASE stage = "fetch_topics" -> "trending_topics"
      [] stage = "rank_topics" -> "processed_topics"
      [] stage = "select_topic" -> "selected_topic"
      [] stage = "generate_script" -> "script_generation"
      [] stage = "generate_voiceover" -> "voiceover"
      [] stage = "generate_visuals" -> "visuals"
      [] stage = "generate_video" -> "video"
      [] stage = "generate_metadata" -> "metadata"
      [] stage = "upload" -> "upload"

\* the stages whose adapter has a fallback producer
FallbackStages ==
    {"generate_script", "generate_voiceover", "generate_visuals",
     "generate_video", "generate_metadata"}

\* the artifacts a stage reads, each with the stage that produces it
StageInputs(stage) ==
    CASE stage = "fetch_topics" -> {}
      [] stage = "rank_topics" -> {<<"fetch_topics", trending_topics # <<>>>>}
      [] stage = "select_topic" -> {<<"fetch_topics", trending_topics # <<>>>>}
      [] stage = "generate_script" -> {<<"select_topic", best_topic # None>>}
      [] stage = "generate_voiceover" -> {<<"generate_script", script # None>>}
      [] stage = "generate_visuals" -> {<<"select_topic", best_topic # None>>}
      [] stage = "generate_video" ->
             {<<"generate_script", script # None>>,
              <<"generate_voiceover", voiceover_filepath # None>>,
              <<"generate_visuals", visuals_filepath # None>>}
      [] stage = "generate_metadata" -> {<<"generate_script", script # None>>}
      [] stage = "upload" ->
             {<<"generate_video", video_filepath # None>>,
              <<"generate_metadata", metadata # None>>}

\* C1: whenever the adapter of a stage after topic selection raised or gave
\* no artifact, the stages after it ran as well and the returned run record
\* has success = true.
C1_FallbackKeepsRunGoing ==
    (pc = "returned" /\ warnings \cap FallbackStages # {})
        => /\ pipeline_results[1].success
           /\ \A s \in warnings \cap FallbackStages : Started(StageAfter(s))

\* C2: a fetch stage that returned zero topics ends the run as failed, with
\* the error "No trending topics found", and no stage after fetch_topics
\* is executed.
C2_NoTopicsFails ==
    (Started("fetch_topics") /\ trending_topics = <<>>)
        => /\ Returned
           /\ ~pipeline_results[1].success
           /\ pipeline_results[1].error = Some(NoTopicsError)
           /\ executed = <<"fetch_topics">>

C2_Witness ==
    /\ pc = "returned"
    /\ executed = <<"fetch_topics">>
    /\ trending_topics = <<>>
    /\ pipeline_results[1].error = Some(NoTopicsError)

\* C3: when topics were fetched and the scorer kept none of them, the run
\* ends as failed with the error "No suitable topics found after
\* processing", and no stage from select_topic onward is executed.
C3_NoSuitableTopicsFails ==
    (Started("rank_topics") /\ trending_topics # <<>> /\ processed_topics = <<>>)
        => /\ Returned
           /\ ~pipeline_results[1].success
           /\ pipeline_results[1].error = Some(NoSuitableTopicsError)
           /\ executed = <<"fetch_topics", "rank_topics">>

C3_Witness ==
    /\ pc = "returned"
    /\ executed = <<"fetch_topics", "rank_topics">>
    /\ trending_topics # <<>>
    /\ processed_topics = <<>>
    /\ pipeline_results[1].error = Some(NoSuitableTopicsError)

\* C4: the stages executed so far are an initial segment of the fixed stage
\* order, the stage about to start is the one right after the last finished
\* stage, and every artifact it reads exists and was produced by a stage
\* that has already finished.
C4_FixedStageOrder ==
    /\ Len(executed) <= Len(StageOrder)
    /\ \A k \in 1..Len(executed) : executed[k] = StageOrder[k]
    /\ pc \in Stages
          => /\ pc = StageOrder[Len(executed) + 1]
             /\ \A a \in StageInputs(pc) : Started(a[1]) /\ a[2]

C4_Witness ==
    /\ pc = "returned"
    /\ executed = StageOrder
    /\ warnings = {}

\* C5: once the run is under way there is a run record with started_at; the
\* returned record holds the step of every stage that finished and, for a
\* failed run, the error; and the run-once command has written exactly that
\* record to the report file when the process ends, for failed runs too.
C5_RecordProducedAndSaved ==
    /\ pc # "main"
          => /\ pipeline_results # None
             /\ pipeline_results[1].started_at = StartNow
    /\ Returned
          => /\ \A k \in 1..Len(executed) :
                    (k < Len(executed) \/ pipeline_results[1].success)
                        => HasStep(pipeline_results[1], StepName(executed[k]))
             /\ ~pipeline_results[1].success
                    => pipeline_results[1].error # None
    /\ pc = "exited" => results_file = pipeline_results

C5_Witness ==
    /\ pc = "exited"
    /\ ~pipeline_results[1].success
    /\ Len(executed) >= 5
    /\ results_file = pipeline_results
    /\ HasStep(results_file[1], "script_generation")

\* the provider the run record names for the audio artifact, if any
VoiceoverProvider(results) ==
    IF HasStep(results, "voiceover")
       /\ "provider" \in DOMAIN StepData(results, "voiceover")
    THEN Some(StepData(results, "voiceover").provider)
    ELSE None

\* C6: when every speech provider failed, the voiceover stage records an
\* audio artifact whose provider is "fallback", and the returned run record
\* has success = true.
C6_VoiceoverFallbackArtifact ==
    ("generate_voiceover" \in warnings)
        => /\ HasStep(pipeline_results[1], "voiceover")
           /\ VoiceoverProvider(pipeline_results[1]) = Some("fallback")
           /\ Returned => pipeline_results[1].success

\* C7: no run ends as failed because the placeholder file of a fallback
\* producer could not be written.
C7_FallbackFailureTolerated ==
    Returned => pipeline_results[1].error # Some(PlaceholderWriteError)

\* C8: a non-debug run whose upload stage found no credentials or failed
\* the authentication check is returned as failed, with an error message,
\* and without any upload request.
C8_MissingCredentialsFailRun ==
    (Returned /\ ~debug /\ HasStep(pipeline_results[1], "upload")
       /\ StepData(pipeline_results[1], "upload").status = "authentication_failed")
        => /\ ~pipeline_results[1].success
           /\ pipeline_results[1].error # None
           /\ upload_calls = 0
           /\ upload_attempts = 0

\* C9: in a debug run the uploader is never called, and once the eight
\* stages before upload have completed the run returns with the upload step
\* recorded as skipped and success = true.
C9_DebugSkipsUpload ==
    debug
        => /\ upload_calls = 0
           /\ upload_attempts = 0
           /\ "upload" \notin warnings
           /\ Len(executed) >= Len(StageOrder) - 1
                 => \/ pc = "upload"
                    \/ /\ Returned
                       /\ StepData(pipeline_results[1], "upload")
                              = [status |-> "skipped_debug"]
                       /\ pipeline_results[1].success

C9_Witness ==
    /\ debug
    /\ pc = "returned"
    /\ executed = StageOrder
    /\ StepData(pipeline_results[1], "upload").status = "skipped_debug"
    /\ pipeline_results[1].success

\* C10: the exit code of the run-once command is zero exactly when the
\* returned run record has success = true.
C10_ExitCodeReflectsSuccess ==
    pc = "exited" => (exit_code = Some(0) <=> pipeline_results[1].success)

(***************************************************************************)
(* The scorer on its own: process_topics and get_best_topic_for_video are  *)
(* called on a batch of TrendingTopic objects that did not come from the   *)
(* fetcher.  The batch is kept in trending_topics, the list returned by    *)
(* the latest process_topics call in processed_topics and the value        *)
(* returned by get_best_topic_for_video in best_topic; the variables of    *)
(* the other pipeline stages keep their initial values.                    *)
(***************************************************************************)
MaxBatch == 2

TitleFunnyTravel == <<"F","u","n","n","y"," ","T","r","a","v","e","l"," ","S","t","o","r","i","e","s"," ","F","r","o","m"," ","A","r","o","u","n","d"," ","T","h","e"," ","W","o","r","l","d">>

TitleGarden == <<"S","e","v","e","n"," ","S","i","m","p","l","e"," ","G","a","r","d","e","n"," ","T","i","p","s"," ","T","h","a","t"," ","H","e","l","p"," ","Y","o","u","r"," ","T","o","m","a","t","o"," ","P","l","a","n","t","s"," ","G","r","o","w"," ","B","i","g","g","e","r"," ","E","a","c","h"," ","Y","e","a","r">>

DescTrendingNow == <<"T","r","e","n","d","i","n","g"," ","n","o","w">>

DescAnimalFacts == <<"F","a","c","t","s"," ","a","b","o","u","t"," ","a","n","i","m","a","l","s">>

KeywordFacts == <<"f","a","c","t","s">>

\* the keyword list of this topic names "facts" twice
TopicFacts ==
    [title |-> TitleFacts, description |-> DescAnimalFacts,
     source |-> google_trends, score |-> 120,
     keywords |-> <<KeywordFacts, KeywordFacts>>,
     url |-> None, created_at |-> Some(StartNow)]

\* found a day before the first call
TopicQuantum ==
    [title |-> TitleQuantum, description |-> DescTrendingNow,
     source |-> google_trends, score |-> 182,
     keywords |-> <<lower(TitleQuantum)>>,
     url |-> None, created_at |-> Some(StartNow - 24)]

TopicPolitical ==
    [title |-> TitlePolitical, description |-> DescTrendingNow,
     source |-> google_trends, score |-> 90,
     keywords |-> <<lower(TitlePolitical)>>,
     url |-> None, created_at |-> Some(StartNow)]

\* posted five hours before the first call
TopicFunnyTravel ==
    [title |-> TitleFunnyTravel, description |-> DescTrendingNow,
     source |-> reddit_r_all, score |-> 95,
     keywords |-> <<>>,
     url |-> None, created_at |-> Some(StartNow - 5)]

\* a topic without a discovery time
TopicGarden ==
    [title |-> TitleGarden, description |-> DescTrendingNow,
     source |-> google_trends, score |-> 115,
     keywords |-> <<>>,
     url |-> None, created_at |-> None]

\* title=None
TopicNoneTitle ==
    [title |-> NoneTitle, description |-> DescTrendingNow,
     source |-> google_trends, score |-> 80,
     keywords |-> <<>>,
     url |-> None, created_at |-> None]

\* an object of the batch that has no title attribute
TopicNoTitle ==
    [description |-> DescTrendingNow,
     source |-> google_trends, score |-> 80,
     keywords |-> <<>>,
     url |-> None, created_at |-> None]

ScorerTopics ==
    {TopicFacts, TopicQuantum, TopicPolitical, TopicFunnyTravel, TopicGarden,
     TopicNoneTitle, TopicNoTitle}

\* the batches of at most MaxBatch different topics, in every order
ScorerBatches ==
    {b \in SeqsUpTo(ScorerTopics, MaxBatch) :
        \A i, j \in 1..Len(b) : b[i] = b[j] => i = j}

others == <<debug, script, voiceover_filepath, visuals_filepath, video_filepath,
            metadata, pipeline_results, executed, warnings, upload_calls,
            upload_attempts, results_file, exit_code, standalone>>

InitScorer ==
    /\ pc = "scorer"
    /\ debug = FALSE
    /\ now = StartNow
    /\ ticks = 0
    /\ trending_topics \in ScorerBatches
    /\ processed_topics = <<>>
    /\ best_topic = None
    /\ script = None
    /\ voiceover_filepath = None
    /\ visuals_filepath = None
    /\ video_filepath = None
    /\ metadata = None
    /\ pipeline_results = None
    /\ executed = <<>>
    /\ warnings = {}
    /\ upload_calls = 0
    /\ upload_attempts = 0
    /\ results_file = None
    /\ exit_code = None
    /\ NoCalls

\* processor.process_topics(topics): the exception that leaves the loop
\* reaches the caller
ProcessTopics ==
    /\ pc = "scorer"
    /\ IF process_topics_raises(trending_topics)
       THEN /\ pc' = "raised"
            /\ UNCHANGED processed_topics
       ELSE /\ \E ranked \in {process_topics(trending_topics, now)} :
                   processed_topics' = ranked
            /\ pc' = "ranked"
    /\ UNCHANGED <<now, ticks, trending_topics, best_topic, others>>

\* time passes between two calls of the scorer
ScorerTick ==
    /\ pc = "ranked"
    /\ ticks < MaxTicks
    /\ now' = now + 1
    /\ ticks' = ticks + 1
    /\ UNCHANGED <<pc, trending_topics, processed_topics, best_topic, others>>

\* process_topics is called again on the same batch
ProcessTopicsAgain ==
    /\ pc = "ranked"
    /\ \E ranked \in {process_topics(trending_topics, now)} :
           processed_topics' = ranked
    /\ UNCHANGED <<pc, now, ticks, trending_topics, best_topic, others>>

\* processor.get_best_topic_for_video(topics)
GetBestTopic ==
    /\ pc = "ranked"
    /\ \E best \in {get_best_topic_for_video(trending_topics, now)} :
           best_topic' = best
    /\ pc' = "selected"
    /\ UNCHANGED <<now, ticks, trending_topics, processed_topics, others>>

NextScorer ==
    \/ ProcessTopics
    \/ ScorerTick
    \/ ProcessTopicsAgain
    \/ GetBestTopic

SpecScorer == InitScorer /\ [][NextScorer]_vars

(***************************************************************************)
(* Properties of the scorer.                                               *)
(***************************************************************************)
\* the list in processed_topics was returned by process_topics
Ranked == pc \in {"ranked", "selected"}

\* the blacklisted terms that occur in a text, whatever its case
BlacklistedTerms(text) ==
    {k \in 1..Len(blacklisted_keywords) :
        Contains(blacklisted_keywords[k], lower(text))}

\* C11: no topic whose title and description, taken together and compared
\* without regard to case, contain a blacklisted term is in the list
\* process_topics returns.
C11_NoBlacklistedTopicRanked ==
    Ranked =>
        \A i \in 1..Len(processed_topics) :
            LET topic == processed_topics[i].original_topic
            IN  BlacklistedTerms(topic.title \o <<" ">> \o topic.description) = {}

C11_Witness ==
    /\ pc = "ranked"
    /\ \E i \in 1..Len(trending_topics) : trending_topics[i] = TopicPolitical
    /\ processed_topics # <<>>

\* the positions of the easy and medium topics in a ranked list
EasyPositions(ranked) ==
    {k \in 1..Len(ranked) : ranked[k].difficulty_level \in {"easy", "medium"}}

\* C12: get_best_topic_for_video returns the highest-ranked surviving topic
\* of easy or medium difficulty when there is one (never a hard topic then),
\* otherwise the highest-ranked surviving topic, and no topic only when no
\* topic survives the filter.
C12_BestTopicPrefersEasy ==
    pc = "selected" =>
        LET ranked == process_topics(trending_topics, now)
            easy == EasyPositions(ranked)
        IN  /\ (best_topic = None) <=> (ranked = <<>>)
            /\ easy # {} =>
                   best_topic = Some(ranked[CHOOSE k \in easy :
                                               \A j \in easy : k <= j])
            /\ (easy = {} /\ ranked # <<>>) => best_topic = Some(ranked[1])

C12_Witness ==
    /\ pc = "selected"
    /\ best_topic # None
    /\ processed_topics # <<>>
    /\ processed_topics[1].difficulty_level = "hard"
    /\ best_topic[1].difficulty_level = "medium"
    /\ best_topic[1] = processed_topics[2]

\* the place of a topic in the batch it came from
PositionIn(topic, batch) == CHOOSE k \in 1..Len(batch) : batch[k] = topic

\* C13: the list process_topics returns is in non-increasing order of the
\* engagement score, and topics with equal scores keep the relative order
\* they had in the input batch.
C13_RankedDescendingStable ==
    Ranked =>
        \A i, j \in 1..Len(processed_topics) :
            i < j =>
                LET first == processed_topics[i]
                    second == processed_topics[j]
                IN  /\ first.estimated_engagement >= second.estimated_engagement
                    /\ first.estimated_engagement = second.estimated_engagement
                       => PositionIn(first.original_topic, trending_topics)
                          < PositionIn(second.original_topic, trending_topics)

C13_Witness ==
    /\ pc = "ranked"
    /\ Len(processed_topics) = 2
    /\ processed_topics[1].estimated_engagement
       = processed_topics[2].estimated_engagement
    /\ processed_topics[1].original_topic = TopicQuantum

\* the number of patterns of the k-th category that occur in a topic's text
PatternHits(topic, k) ==
    Hits(content_patterns[k].patterns,
         lower(topic.title \o <<" ">> \o topic.description))

\* the categories that reach the highest pattern count of a topic
TopCategories(topic) ==
    {k \in 1..Len(content_patterns) :
        \A j \in 1..Len(content_patterns) :
            PatternHits(topic, j) <= PatternHits(topic, k)}

\* C14: the content type of a ranked topic is the category with the highest
\* pattern count; when several categories share the highest count, or no
\* pattern occurs at all, it is "educational".
C14_ContentTypeTieIsEducational ==
    Ranked =>
        \A i \in 1..Len(processed_topics) :
            LET topic == processed_topics[i].original_topic
                top == TopCategories(topic)
            IN  processed_topics[i].content_type =
                    IF Cardinality(top) = 1
                    THEN content_patterns[CHOOSE k \in top : TRUE].content_type
                    ELSE "educational"

\* C15: a second call of process_topics on the same batch, with the tables of
\* the scorer unchanged, returns the same ordered list as the first call: the
\* output depends on the batch and on the tables alone.
C15_RerunReturnsSameList ==
    [][(pc = "ranked" /\ pc' = "ranked" /\ trending_topics' = trending_topics)
          => processed_topics' = processed_topics]_vars

\* C16: the target keywords of a ranked topic hold no entry twice and at
\* most ten entries, whatever keyword list the source provided, a list with
\* duplicates included.
C16_TargetKeywordsUniqueAndCapped ==
    Ranked =>
        \A i \in 1..Len(processed_topics) :
            LET keywords == processed_topics[i].target_keywords
            IN  /\ Len(keywords) <= max_target_keywords
                /\ \A m, n \in 1..Len(keywords) :
                       keywords[m] = keywords[n] => m = n

\* ten times the multiplier the table holds under a name, 10 when it holds none
TableMultiplier(name) ==
    LET entries == {k \in 1..Len(engagement_multipliers) :
                       engagement_multipliers[k].key = name}
    IN  IF entries = {} THEN 10
        ELSE engagement_multipliers[CHOOSE k \in entries : TRUE].mult

\* ten times the multiplier of the first entry of a table, among the entries
\* whose places are in found; 10 when found is empty
FirstMultiplier(table, found) ==
    IF found = {} THEN 10
    ELSE table[CHOOSE k \in found : \A j \in found : k <= j].mult

\* ten times the recency bonus of a topic at the time of a call
RecencyBonus(topic, time) ==
    IF topic.created_at = None THEN 10
    ELSE IF time - topic.created_at[1] < 6 THEN 13
    ELSE IF time - topic.created_at[1] < 24 THEN 11
    ELSE 10

\* 10^4 times the score the claim describes
ExpectedEngagement(topic, content_type, time) ==
    LET text == lower(topic.title \o <<" ">> \o topic.description)
        keywords_found == {k \in 1..Len(engagement_multipliers) :
                              Contains(engagement_multipliers[k].keyword, text)}
        sources_found == {k \in 1..Len(source_multipliers) :
                             Contains(source_multipliers[k].source, topic.source)}
    IN  topic.score * TableMultiplier(content_type)
            * FirstMultiplier(engagement_multipliers, keywords_found)
            * FirstMultiplier(source_multipliers, sources_found)
            * RecencyBonus(topic, time)

\* C17: the engagement score of a ranked topic is its raw score, times the
\* multiplier of its content type (1.0 without a table entry), times the
\* multiplier of the first table keyword found in title and description
\* only (1.0 if none), times the multiplier of the first source tag found
\* in the source identifier (1.0 if none), times the recency bonus (1.3
\* below 6 hours, 1.1 below 24 hours, 1.0 otherwise or without a time).
C17_EngagementFormula ==
    [][(pc' = "ranked" /\ now' = now) =>
          \A i \in 1..Len(processed_topics') :
              processed_topics'[i].estimated_engagement =
                  ExpectedEngagement(processed_topics'[i].original_topic,
                                     processed_topics'[i].content_type, now)]_vars

\* a call that ranked the topic posted six hours before it together with
\* the topic whose text holds two table keywords
C17_Witness ==
    /\ pc = "ranked"
    /\ Len(processed_topics) = 2
    /\ \E i \in 1..2 :
           /\ processed_topics[i].original_topic = TopicFunnyTravel
           /\ processed_topics[i].estimated_engagement =
                  ExpectedEngagement(TopicFunnyTravel, "entertainment", now)
           /\ RecencyBonus(TopicFunnyTravel, now) = 11
    /\ \E i \in 1..2 : processed_topics[i].original_topic = TopicFacts

\* C18: the processed title of every topic that passes the filter (title of
\* 10 to 100 characters) has at most 60 characters, whichever way it was
\* built: from the angle, with the prefix, unchanged or cut.
C18_ProcessedTitleAtMost60 ==
    Ranked =>
        \A i \in 1..Len(processed_topics) :
            /\ Len(processed_topics[i].original_topic.title) \in 10..100
            /\ Len(processed_topics[i].processed_title) <= 60

\* a ranked topic whose title of more than 60 characters was cut
C18_Witness ==
    /\ pc = "ranked"
    /\ \E i \in 1..Len(processed_topics) :
           /\ Len(processed_topics[i].original_topic.title) > 60
           /\ Len(processed_topics[i].processed_title) = 60
           /\ processed_topics[i].processed_title
              = SubSeq(processed_topics[i].original_topic.title, 1, 57) \o Ellipsis

\* C19: every ranked topic carries a content type among educational,
\* entertainment, news and lifestyle, and a difficulty level among easy,
\* medium and hard; neither field is ever empty or another value.
C19_TypeAndLevelEnumerated ==
    Ranked =>
        \A i \in 1..Len(processed_topics) :
            /\ processed_topics[i].content_type
               \in {"educational", "entertainment", "news", "lifestyle"}
            /\ processed_topics[i].difficulty_level \in {"easy", "medium", "hard"}

\* a ranked list with a topic that matches neither keyword list more than
\* the other, next to one typed by its patterns
C19_Witness ==
    /\ pc = "ranked"
    /\ \E i \in 1..Len(processed_topics) :
           /\ processed_topics[i].difficulty_level = "medium"
           /\ processed_topics[i].original_topic = TopicGarden
    /\ \E i \in 1..Len(processed_topics) :
           /\ processed_topics[i].difficulty_level = "easy"
           /\ processed_topics[i].content_type = "entertainment"

\* the topics of a batch that are well formed and pass the filter
Survivors(batch) ==
    {batch[k] : k \in {i \in 1..Len(batch) :
                          ~TopicRaises(batch[i]) /\ _is_topic_appropriate(batch[i])}}

\* C20: process_topics never aborts on a malformed topic: when processing a
\* topic of the batch raises (a missing title, a title that is not a
\* string), no error reaches the caller, the topic is skipped, and every
\* other topic of the batch is still filtered, ranked and returned.
C20_MalformedTopicSkipped ==
    /\ pc # "raised"
    /\ Ranked =>
           {processed_topics[i].original_topic : i \in 1..Len(processed_topics)}
               = Survivors(trending_topics)

(***************************************************************************)
(* The fetcher on its own: fetch_all_trending_topics starts one task per   *)
(* configured source, the tasks end in any order, each with a list of      *)
(* topics or with an exception, and the gathered results are combined.     *)
(* trending_topics holds the list the call returns.                        *)
(***************************************************************************)
FetcherLimit == 2

FetcherPosts ==
    { [title |-> TitleFood, selftext |-> <<>>, score |-> 9500, age |-> 5,
       keywords |-> <<>>],
      [title |-> TitleFunnyTravel, selftext |-> <<>>, score |-> 8500, age |-> 2,
       keywords |-> <<>>] }

\* how a source task can end: None when an exception leaves it, else the
\* list of at most FetcherLimit topics it returns
SourceOutcomes(task, time) ==
    {None} \cup
    IF task = "google_trends"
    THEN {Some(fetch_google_trends(l, time)) : l \in SeqsUpTo(GoogleTitles, FetcherLimit)}
    ELSE {Some(fetch_reddit_trends(l, time)) : l \in SeqsUpTo(FetcherPosts, FetcherLimit)}

\* the Reddit task is started only when the Reddit client was built
InitFetcher ==
    /\ pc = "gather"
    /\ debug = FALSE
    /\ now = StartNow
    /\ ticks = 0
    /\ trending_topics = <<>>
    /\ processed_topics = <<>>
    /\ best_topic = None
    /\ script = None
    /\ voiceover_filepath = None
    /\ visuals_filepath = None
    /\ video_filepath = None
    /\ metadata = None
    /\ pipeline_results = None
    /\ executed = <<>>
    /\ warnings = {}
    /\ upload_calls = 0
    /\ upload_attempts = 0
    /\ results_file = None
    /\ exit_code = None
    /\ \E tasks \in {<<"google_trends">>, <<"google_trends", "reddit">>} :
           gather_results = [k \in 1..Len(tasks) |->
                                [task |-> tasks[k], done |-> FALSE, result |-> None]]
    /\ scripts = <<>>
    /\ saved_file = None
    /\ loaded = None
    /\ request_body = None
    /\ upload_responses = <<>>
    /\ upload_result = None

\* one of the running source tasks ends
SourceCompletes ==
    /\ pc = "gather"
    /\ \E k \in 1..Len(gather_results) :
           /\ ~gather_results[k].done
           /\ \E outcome \in SourceOutcomes(gather_results[k].task, now) :
                  gather_results' =
                      [gather_results EXCEPT ![k] = [task |-> @.task, done |-> TRUE,
                                                     result |-> outcome]]
    /\ UNCHANGED <<pc, debug, now, ticks, artifacts, pipeline_results, executed,
                   warnings, upload_calls, upload_attempts, results_file,
                   exit_code, scripts, saved_file, loaded, request_body,
                   upload_responses, upload_result>>

\* every task has ended: the results are combined, sorted and cut to the limit
FetchAllTrendingTopics ==
    /\ pc = "gather"
    /\ \A k \in 1..Len(gather_results) : gather_results[k].done
    /\ \E topics \in {fetch_all_trending_topics(
                          [k \in 1..Len(gather_results) |-> gather_results[k].result],
                          FetcherLimit)} :
           trending_topics' = topics
    /\ pc' = "fetched"
    /\ UNCHANGED <<debug, now, ticks, processed_topics, best_topic, script,
                   voiceover_filepath, visuals_filepath, video_filepath, metadata,
                   pipeline_results, executed, warnings, upload_calls,
                   upload_attempts, results_file, exit_code, standalone>>

NextFetcher ==
    \/ SourceCompletes
    \/ FetchAllTrendingTopics

SpecFetcher == InitFetcher /\ [][NextFetcher]_vars

\* the topics of the sources that succeeded, in task order
SucceededTopics ==
    LET RECURSIVE From(_)
        From(k) == IF k > Len(gather_results) THEN <<>>
                   ELSE (IF gather_results[k].result = None THEN <<>>
                         ELSE gather_results[k].result[1]) \o From(k + 1)
    IN  From(1)

\* C21: fetch_all_trending_topics never raises: whichever sources fail and in
\* whatever order the source tasks end, it returns the topics of the sources
\* that succeeded, sorted by descending raw score and cut to at most `limit`
\* entries; the list is empty when every source fails.
C21_FetchSurvivesFailedSources ==
    /\ pc \in {"gather", "fetched"}
    /\ pc = "fetched" =>
           LET all == SucceededTopics
               n == Len(trending_topics)
           IN  /\ n = IF Len(all) < FetcherLimit THEN Len(all) ELSE FetcherLimit
               /\ \A i \in 1..(n - 1) :
                      trending_topics[i].score >= trending_topics[i + 1].score
               /\ \E f \in [1..n -> 1..Len(all)] :
                      /\ \A i, j \in 1..n : f[i] = f[j] => i = j
                      /\ \A i \in 1..n : trending_topics[i] = all[f[i]]
                      /\ \A m \in 1..Len(all) :
                             (\A i \in 1..n : f[i] # m) =>
                                 \A i \in 1..n : all[m].score <= trending_topics[i].score

\* the Google task failed and the Reddit posts came back in another order
\* than their scores
C21_Witness ==
    /\ pc = "fetched"
    /\ Len(gather_results) = 2
    /\ gather_results[1].result = None
    /\ Len(trending_topics) = 2
    /\ trending_topics[1] = gather_results[2].result[1][2]
    /\ trending_topics[1].score > trending_topics[2].score

(***************************************************************************)
(* The script generator on its own: generate_multiple_scripts starts one   *)
(* generate_script task per ranked topic of processed_topics; the tasks    *)
(* end in any order and the scripts are collected into scripts.            *)
(***************************************************************************)
MaxScripts == 2

LLMShortWords == 10     \* words of a terse language-model response

TitleHomeGym == <<"T","e","n"," ","f","u","n"," ","w","a","y","s"," ","t","o"," ","g","e","t"," ","f","i","t"," ","a","t"," ","h","o","m","e"," ","o","n"," ","a"," ","r","a","i","n","y"," ","d","a","y"," ","i","f"," ","y","o","u"," ","h","a","v","e"," ","n","o"," ","g","y","m">>

\* a title of seventeen words
TopicHomeGym ==
    [title |-> TitleHomeGym, description |-> DescTrendingNow,
     source |-> google_trends, score |-> 70,
     keywords |-> <<>>,
     url |-> None, created_at |-> Some(StartNow)]

ScriptTopics == {TopicFacts, TopicFunnyTravel, TopicHomeGym}

\* how a generate_script task can end: with an exception, or with the value
\* generate_script returns for the answers of the language-model clients
\* (None: no client, a failed call or an empty answer, hence the template)
ScriptOutcomes(topic, time) ==
    {[raised |-> TRUE, responses |-> <<None, None, None>>, value |-> None]}
    \cup
    {[raised |-> FALSE, responses |-> <<h, m, c>>,
      value |-> generate_script(topic, h, m, c, time)] :
        h \in LLMResponses \cup {Some(Words(LLMShortWords))},
        m \in {None, Some(Words(LLMShortWords))},
        c \in {None, Some(Words(LLMShortWords))}}

InitScripts ==
    /\ pc = "scripting"
    /\ debug = FALSE
    /\ now = StartNow
    /\ ticks = 0
    /\ trending_topics = <<>>
    /\ \E batch \in {b \in SeqsUpTo(ScriptTopics, MaxScripts) :
                        \A i, j \in 1..Len(b) : b[i] = b[j] => i = j} :
           processed_topics = process_topics(batch, StartNow)
    /\ best_topic = None
    /\ script = None
    /\ voiceover_filepath = None
    /\ visuals_filepath = None
    /\ video_filepath = None
    /\ metadata = None
    /\ pipeline_results = None
    /\ executed = <<>>
    /\ warnings = {}
    /\ upload_calls = 0
    /\ upload_attempts = 0
    /\ results_file = None
    /\ exit_code = None
    /\ gather_results = [k \in 1..Len(processed_topics) |->
                            [done |-> FALSE, raised |-> FALSE,
                             responses |-> <<None, None, None>>, value |-> None]]
    /\ scripts = <<>>
    /\ saved_file = None
    /\ loaded = None
    /\ request_body = None
    /\ upload_responses = <<>>
    /\ upload_result = None

\* one of the running generate_script tasks ends
ScriptTaskCompletes ==
    /\ pc = "scripting"
    /\ \E k \in 1..Len(gather_results) :
           /\ ~gather_results[k].done
           /\ \E outcome \in ScriptOutcomes(processed_topics[k], now) :
                  gather_results' =
                      [gather_results EXCEPT ![k] =
                          [done |-> TRUE, raised |-> outcome.raised,
                           responses |-> outcome.responses,
                           value |-> outcome.value]]
    /\ UNCHANGED <<pc, debug, now, ticks, artifacts, pipeline_results, executed,
                   warnings, upload_calls, upload_attempts, results_file,
                   exit_code, scripts, saved_file, loaded, request_body,
                   upload_responses, upload_result>>

\* every task has ended: the scripts are collected and returned
GenerateMultipleScripts ==
    /\ pc = "scripting"
    /\ \A k \in 1..Len(gather_results) : gather_results[k].done
    /\ scripts' = generate_multiple_scripts(gather_results)
    /\ pc' = "scripted"
    /\ UNCHANGED <<debug, now, ticks, artifacts, pipeline_results, executed,
                   warnings, upload_calls, upload_attempts, results_file,
                   exit_code, gather_results, saved_file, loaded, request_body,
                   upload_responses, upload_result>>

NextScripts ==
    \/ ScriptTaskCompletes
    \/ GenerateMultipleScripts

SpecScripts == InitScripts /\ [][NextScripts]_vars

\* the tasks that ended with a script
ScriptTasks ==
    {k \in 1..Len(gather_results) :
        ~gather_results[k].raised /\ gather_results[k].value # None}

\* C22: generate_multiple_scripts isolates the failures of single topics:
\* whichever tasks fail or raise, the call does not raise, no other task is
\* cancelled, and the scripts of all other topics are returned in the order
\* of the input topics.
C22_ScriptFailuresIsolated ==
    /\ pc \in {"scripting", "scripted"}
    /\ pc = "scripted" =>
           /\ \A k \in 1..Len(gather_results) : gather_results[k].done
           /\ Len(scripts) = Cardinality(ScriptTasks)
           /\ \A i \in 1..Len(scripts) :
                  LET k == CHOOSE t \in ScriptTasks :
                               Cardinality({u \in ScriptTasks : u < t}) = i - 1
                  IN  /\ scripts[i] = gather_results[k].value[1]
                      /\ scripts[i].topic = processed_topics[k]

\* the first task raised, the second returned a script
C22_Witness ==
    /\ pc = "scripted"
    /\ Len(gather_results) = 2
    /\ gather_results[1].raised
    /\ Len(scripts) = 1
    /\ scripts[1].topic = processed_topics[2]

\* C24: every script generate_script returns has a word_count equal to the
\* number of words of its full_script, between 20 and SCRIPT_MAX_WORDS, and
\* an estimated_duration of at most VIDEO_DURATION_SECONDS; a script outside
\* these bounds is never returned.
C24_ReturnedScriptWithinBounds ==
    \A k \in 1..Len(gather_results) :
        (gather_results[k].done /\ gather_results[k].value # None) =>
            LET s == gather_results[k].value[1]
            IN  /\ s.word_count = WordCount(s.full_script)
                /\ 20 <= s.word_count
                /\ s.word_count <= 75
                /\ s.estimated_duration <= 60

\* one task returned a script written by the language model, another
\* returned none because the model's hook was too long
C24_Witness ==
    /\ pc = "scripted"
    /\ \E k \in 1..Len(gather_results) :
           /\ ~gather_results[k].raised
           /\ gather_results[k].value = None
           /\ gather_results[k].responses[1] = Some(Words(LLMLongWords))
    /\ \E i \in 1..Len(scripts) :
           /\ scripts[i].word_count = 3 * LLMShortWords
           /\ scripts[i].hook = Words(LLMShortWords)

\* C26: without a language-model client, when hook, main content and call to
\* action all come from the templates, generate_script returns a valid
\* script for every ranked topic that passed the filter, whatever the
\* number of words of its title and its content type.
C26_TemplatesAlwaysYieldScript ==
    \A k \in 1..Len(gather_results) :
        (/\ gather_results[k].done
         /\ ~gather_results[k].raised
         /\ gather_results[k].responses = <<None, None, None>>)
            => gather_results[k].value # None
(***************************************************************************)
(* The uploader on its own: upload_video builds the request body from the  *)
(* metadata and then runs the retry loop against a service whose answers   *)
(* to the insert requests are upload_responses.                            *)
(***************************************************************************)
MaxTags == 2

LongTagLength == 250

LongTag == [k \in 1..LongTagLength |-> "x"]

UploaderTags ==
    {LongTag, <<"S","H","O","R","T","S">>, <<"f","u","n">>}

UploaderOutcomes == {"ok", "http_503", "http_501", "http_403", "error"}

InitUploader ==
    /\ pc = "prepare"
    /\ debug = FALSE
    /\ now = StartNow
    /\ ticks = 0
    /\ trending_topics = <<>>
    /\ processed_topics = <<>>
    /\ best_topic = None
    /\ script = None
    /\ voiceover_filepath = None
    /\ visuals_filepath = None
    /\ video_filepath = None
    /\ \E tags \in SeqsUpTo(UploaderTags, MaxTags), privacy \in {"private", "friends"} :
           metadata = Some([title |-> TitleHomeGym, tags |-> tags,
                            category |-> "22", privacy |-> privacy,
                            language |-> "en"])
    /\ pipeline_results = None
    /\ executed = <<>>
    /\ warnings = {}
    /\ upload_calls = 0
    /\ upload_attempts = 0
    /\ results_file = None
    /\ exit_code = None
    /\ NoCalls

\* upload_video, up to the request body
PrepareUploadRequest ==
    /\ pc = "prepare"
    /\ request_body' = Some(_prepare_upload_request(metadata[1]))
    /\ pc' = "execute"
    /\ UNCHANGED <<debug, now, ticks, artifacts, pipeline_results, executed,
                   warnings, upload_calls, upload_attempts, results_file,
                   exit_code, gather_results, scripts, saved_file, loaded,
                   upload_responses, upload_result>>

\* upload_video, from the retry loop to its return
ExecuteUploadWithRetry ==
    /\ pc = "execute"
    /\ \E outcomes \in [1..max_retries -> UploaderOutcomes] :
           /\ upload_responses' = outcomes
           /\ upload_result' = Some(_execute_upload_with_retry(outcomes))
    /\ pc' = "uploaded"
    /\ UNCHANGED <<debug, now, ticks, artifacts, pipeline_results, executed,
                   warnings, upload_calls, upload_attempts, results_file,
                   exit_code, gather_results, scripts, saved_file, loaded,
                   request_body>>

NextUploader ==
    \/ PrepareUploadRequest
    \/ ExecuteUploadWithRetry

SpecUploader == InitUploader /\ [][NextUploader]_vars

\* the attempt at which the loop stops: the first one that succeeds or fails
\* with a permanent error, else the last one
LastAttempt ==
    LET Ends(k) == upload_responses[k] \in {"ok", "http_501", "http_403"}
    IN  IF \E k \in 1..3 : Ends(k)
        THEN CHOOSE k \in 1..3 : Ends(k) /\ \A j \in 1..(k - 1) : ~Ends(j)
        ELSE 3

\* C23: the retry loop makes at most 3 attempts with one fixed delay between
\* consecutive attempts, returns a successful result as soon as an attempt
\* succeeds, and once the attempts are exhausted returns a failed result
\* carrying the last error.
C23_RetryLoopBounded ==
    pc = "uploaded" =>
        LET r == upload_result[1]
        IN  /\ r.attempts \in 1..3
            /\ r.attempts = LastAttempt
            /\ r.sleeps = r.attempts - 1
            /\ r.success <=> upload_responses[r.attempts] = "ok"
            /\ r.success => r.video_id # None
            /\ ~r.success =>
                   /\ r.video_id = None
                   /\ r.error_message = upload_responses[r.attempts]

\* three attempts failed with temporary errors; two delays were waited
C23_Witness ==
    /\ pc = "uploaded"
    /\ upload_responses = <<"http_503", "error", "http_503">>
    /\ ~upload_result[1].success
    /\ upload_result[1].attempts = 3
    /\ upload_result[1].sleeps = 2
    /\ upload_result[1].error_message = "http_503"

\* C29: an HTTP error whose status is none of 500, 502, 503, 504 ends the
\* retry loop at once: no attempt and no delay follow it, and the result is a
\* failed one carrying that error.
C29_PermanentErrorEndsLoop ==
    pc = "uploaded" =>
        \A k \in 1..3 :
            (/\ upload_responses[k] \in {"http_501", "http_403"}
             /\ \A j \in 1..(k - 1) : upload_responses[j] \in {"http_503", "error"})
            => /\ ~upload_result[1].success
               /\ upload_result[1].attempts = k
               /\ upload_result[1].sleeps = k - 1
               /\ upload_result[1].error_message = upload_responses[k]

\* status 501 answers the second attempt, after a temporary error
C29_Witness ==
    /\ pc = "uploaded"
    /\ upload_responses[1] = "http_503"
    /\ upload_responses[2] = "http_501"
    /\ upload_result[1].attempts = 2
    /\ upload_result[1].sleeps = 1
    /\ upload_result[1].error_message = "http_501"

\* C30: the request body built by _prepare_upload_request always contains a
\* "Shorts" tag, compared without regard to case, for every input tag list,
\* also when the list is cut to fit the limit of 500 characters.
C30_RequestHasShortsTag ==
    request_body # None =>
        \E k \in 1..Len(request_body[1].snippet.tags) :
            lower(request_body[1].snippet.tags[k]) = <<"s","h","o","r","t","s">>
(***************************************************************************)
(* The run record at the return of run_full_pipeline, and the topic the    *)
(* select stage records.                                                   *)
(***************************************************************************)
\* C27: at the return of run_full_pipeline, success holds exactly when error
\* is null; a successful record has completed_at, no failed_at and an entry
\* for each of the nine stages; a failed record has failed_at, no
\* completed_at, and its steps are a prefix of the fixed stage sequence.
C27_RunRecordConsistent ==
    Returned =>
        LET r == pipeline_results[1]
            InOrder == /\ Len(r.steps) <= Len(StageOrder)
                       /\ \A k \in 1..Len(r.steps) :
                              r.steps[k].name = StepName(StageOrder[k])
        IN  /\ r.success <=> r.error = None
            /\ InOrder
            /\ r.success => /\ r.completed_at # None
                            /\ r.failed_at = None
                            /\ Len(r.steps) = 9
            /\ ~r.success => /\ r.failed_at # None
                             /\ r.completed_at = None
                             /\ Len(r.steps) < 9
                             /\ Len(r.steps) \in {Len(executed) - 1, Len(executed)}

\* the run failed in its fourth stage, after three steps were recorded
C27_Witness ==
    /\ Returned
    /\ ~pipeline_results[1].success
    /\ pipeline_results[1].error = Some(NoScriptError)
    /\ pipeline_results[1].failed_at # None
    /\ Len(pipeline_results[1].steps) = 3
    /\ executed[Len(executed)] = "generate_script"

\* C28: the topic recorded as selected_topic is the best topic (first
\* easy/medium entry, else first entry) of the ranked list the rank stage of
\* the same run produced, with the same engagement score and difficulty.
C28_SelectedTopicFromRankedList ==
    (pipeline_results # None /\ HasStep(pipeline_results[1], "selected_topic")) =>
        LET easy == {k \in 1..Len(processed_topics) :
                        processed_topics[k].difficulty_level \in {"easy", "medium"}}
            best == IF easy = {} THEN processed_topics[1]
                    ELSE processed_topics[CHOOSE k \in easy : \A j \in easy : k <= j]
            selected == StepData(pipeline_results[1], "selected_topic")
        IN  /\ selected.title = best.processed_title
            /\ selected.content_type = best.content_type
            /\ selected.engagement_score = best.estimated_engagement
            /\ selected.difficulty = best.difficulty_level
(***************************************************************************)
(* The JSON files of the fetcher and of the script generator.  A file is   *)
(* the JSON value json.dump writes: an object is a record, null and a      *)
(* string are tagged values, a time is the text datetime.isoformat() gives.*)
(***************************************************************************)
MaxStored == 2

Digits == <<"0","1","2","3","4","5","6","7","8","9">>

\* datetime.isoformat(): the clock counts the hours since 2025-01-01T00:00:00
isoformat(t) ==
    LET TwoDigits(n) == <<Digits[(n \div 10) + 1], Digits[(n % 10) + 1]>>
    IN  <<"2","0","2","5","-","0","1","-">> \o TwoDigits(1 + (t \div 24))
            \o <<"T">> \o TwoDigits(t % 24) \o <<":","0","0",":","0","0">>

\* a parser that reads the date only
fromisoformat_date(text) ==
    LET Value(c) == (CHOOSE k \in 1..10 : Digits[k] = c) - 1
    IN  (10 * Value(text[9]) + Value(text[10]) - 1) * 24

\* datetime.fromisoformat()
fromisoformat(text) ==
    LET Value(c) == (CHOOSE k \in 1..10 : Digits[k] = c) - 1
    IN  (10 * Value(text[9]) + Value(text[10]) - 1) * 24
            + 10 * Value(text[12]) + Value(text[13])

\* json.dump of an Optional[str]: null or a string
JsonOptional(value) ==
    IF value = None THEN [json |-> "null"]
    ELSE [json |-> "string", value |-> value[1]]

\* dict.get(key) on a loaded object: None for null
JsonGet(entry) == IF entry.json = "null" THEN None ELSE Some(entry.value)

\* TrendingTopic.to_dict
TrendingTopic_to_dict(topic) ==
    [title |-> topic.title,
     description |-> topic.description,
     source |-> topic.source,
     score |-> topic.score,
     keywords |-> topic.keywords,
     url |-> JsonOptional(topic.url),
     created_at |-> JsonOptional(IF topic.created_at # None
                                 THEN Some(isoformat(topic.created_at[1]))
                                 ELSE None)]

\* the TrendingTopic(...) call of load_topics_from_file and of load_script
TrendingTopic_from_dict(topic_data) ==
    [title |-> topic_data.title,
     description |-> topic_data.description,
     source |-> topic_data.source,
     score |-> topic_data.score,
     keywords |-> topic_data.keywords,
     url |-> JsonGet(topic_data.url),
     created_at |-> IF JsonGet(topic_data.created_at) \notin {None, Some(<<>>)}
                    THEN Some(fromisoformat(topic_data.created_at.value))
                    ELSE None]

\* the content of the file save_topics_to_file writes
save_topics_to_file(topics) ==
    [k \in 1..Len(topics) |-> TrendingTopic_to_dict(topics[k])]

load_topics_from_file(topics_data) ==
    [k \in 1..Len(topics_data) |-> TrendingTopic_from_dict(topics_data[k])]

\* the content of the file save_script writes: GeneratedScript.to_dict with
\* ProcessedTopic.to_dict inside
save_script(generated) ==
    [topic |-> [original_topic |-> TrendingTopic_to_dict(generated.topic.original_topic),
                processed_title |-> generated.topic.processed_title,
                video_angle |-> generated.topic.video_angle,
                target_keywords |-> generated.topic.target_keywords,
                estimated_engagement |-> generated.topic.estimated_engagement,
                content_type |-> generated.topic.content_type,
                difficulty_level |-> generated.topic.difficulty_level],
     hook |-> generated.hook,
     main_content |-> generated.main_content,
     call_to_action |-> generated.call_to_action,
     full_script |-> generated.full_script,
     word_count |-> generated.word_count,
     estimated_duration |-> generated.estimated_duration,
     style |-> generated.style,
     generated_at |-> isoformat(generated.generated_at)]

load_script(data) ==
    [topic |-> [original_topic |-> TrendingTopic_from_dict(data.topic.original_topic),
                processed_title |-> data.topic.processed_title,
                video_angle |-> data.topic.video_angle,
                target_keywords |-> data.topic.target_keywords,
                estimated_engagement |-> data.topic.estimated_engagement,
                content_type |-> data.topic.content_type,
                difficulty_level |-> data.topic.difficulty_level],
     hook |-> data.hook,
     main_content |-> data.main_content,
     call_to_action |-> data.call_to_action,
     full_script |-> data.full_script,
     word_count |-> data.word_count,
     estimated_duration |-> data.estimated_duration,
     style |-> data.style,
     generated_at |-> fromisoformat(data.generated_at)]

\* raw topics with and without a url and a discovery time
StorageTopics ==
    {TopicFacts, TopicGarden}
        \cup {fetch_reddit_trends(<<post>>, StartNow)[1] : post \in FetcherPosts}

\* the scripts generate_script returns for these topics
StorageScripts ==
    {s \in UNION {{generate_script(ranked[k], h, None, None, StartNow + 1) :
                      k \in 1..Len(ranked), h \in LLMResponses} :
                  ranked \in {process_topics(<<topic>>, StartNow) :
                                 topic \in StorageTopics}} :
        s # None}

InitStorage ==
    /\ pc = "storage"
    /\ debug = FALSE
    /\ now = StartNow
    /\ ticks = 0
    /\ trending_topics \in SeqsUpTo(StorageTopics, MaxStored)
    /\ processed_topics = <<>>
    /\ best_topic = None
    /\ script \in StorageScripts
    /\ voiceover_filepath = None
    /\ visuals_filepath = None
    /\ video_filepath = None
    /\ metadata = None
    /\ pipeline_results = None
    /\ executed = <<>>
    /\ warnings = {}
    /\ upload_calls = 0
    /\ upload_attempts = 0
    /\ results_file = None
    /\ exit_code = None
    /\ NoCalls

SaveTopicsToFile ==
    /\ pc = "storage"
    /\ saved_file' = Some(save_topics_to_file(trending_topics))
    /\ pc' = "topics_saved"
    /\ UNCHANGED <<debug, now, ticks, artifacts, pipeline_results, executed,
                   warnings, upload_calls, upload_attempts, results_file,
                   exit_code, gather_results, scripts, loaded, request_body,
                   upload_responses, upload_result>>

LoadTopicsFromFile ==
    /\ pc = "topics_saved"
    /\ loaded' = Some(load_topics_from_file(saved_file[1]))
    /\ pc' = "topics_loaded"
    /\ UNCHANGED <<debug, now, ticks, artifacts, pipeline_results, executed,
                   warnings, upload_calls, upload_attempts, results_file,
                   exit_code, gather_results, scripts, saved_file, request_body,
                   upload_responses, upload_result>>

SaveScript ==
    /\ pc = "storage"
    /\ saved_file' = Some(save_script(script[1]))
    /\ pc' = "script_saved"
    /\ UNCHANGED <<debug, now, ticks, artifacts, pipeline_results, executed,
                   warnings, upload_calls, upload_attempts, results_file,
                   exit_code, gather_results, scripts, loaded, request_body,
                   upload_responses, upload_result>>

LoadScript ==
    /\ pc = "script_saved"
    /\ loaded' = Some(load_script(saved_file[1]))
    /\ pc' = "script_loaded"
    /\ UNCHANGED <<debug, now, ticks, artifacts, pipeline_results, executed,
                   warnings, upload_calls, upload_attempts, results_file,
                   exit_code, gather_results, scripts, saved_file, request_body,
                   upload_responses, upload_result>>

NextStorage ==
    \/ SaveTopicsToFile
    \/ LoadTopicsFromFile
    \/ SaveScript
    \/ LoadScript

SpecStorage == InitStorage /\ [][NextStorage]_vars

\* C25: saving a list of raw topics, or a generated script together with its
\* ranked topic, to its JSON file and loading it back yields records equal
\* field for field to the originals, also when url and created_at are absent.
C25_SaveLoadRoundTrip ==
    /\ pc = "topics_loaded" => loaded[1] = trending_topics
    /\ pc = "script_loaded" => loaded[1] = script[1]

\* a list was saved and loaded that holds a topic without url and discovery
\* time and a topic with both
C25_Witness ==
    /\ pc = "topics_loaded"
    /\ Len(trending_topics) = 2
    /\ trending_topics[1].url = None
    /\ trending_topics[1].created_at = None
    /\ saved_file[1][1].created_at.json = "null"
    /\ trending_topics[2].url # None
    /\ trending_topics[2].created_at = Some(StartNow - 5)
    /\ saved_file[1][2].created_at.json = "string"
    /\ loaded[1] = trending_topics

====
